---- MODULE Spec2Model ----
(***************************************************************************)
(* PassVault mobile: key derivation, envelope encryption, vault codec,     *)
(* recovery-key codec and the sync hook, modelled from the JavaScript      *)
(* sources.                                                                *)
(*                                                                         *)
(* Conventions.  A JavaScript string is a sequence of Unicode code points, *)
(* a Uint8Array is a sequence of naturals in 0..255, a base64 text is a    *)
(* sequence of sextets 0..63 with 64 standing for the pad character '='.   *)
(* AES-GCM is an ideal AEAD: a ciphertext is the record of the raw key,    *)
(* the IV and the plaintext it was made from, and decryption succeeds      *)
(* exactly when it is given that key and that IV on an untouched           *)
(* ciphertext.  A key-derivation function is ideal: its output names the   *)
(* primitive, the password bytes and the salt.                             *)
(***************************************************************************)
EXTENDS Integers, Sequences, FiniteSets, TLC

\* ------------------------------------------------------------------ bounds
MaxEmailChars == 3
MaxTokenBytes == 36
MaxMarker == 2
MaxItems == 2
MaxTimers == 1
MaxDraws == 4
MaxSaves == 2
MaxCalls == 2

\* ------------------------------------------------------- program constants
SaltLength == 32
IVLength == 12
MinMasterPasswordLength == 12
RegisterVersion == 1

\* ------------------------------------------------------------- byte helpers
Fill(b, n) == [i \in 1..n |-> b]

Min(a, b) == IF a < b THEN a ELSE b
Max(a, b) == IF a > b THEN a ELSE b

\* TypedArray.prototype.slice(start, end): negative indices count from the
\* end, both are clamped to [0, length], an empty range yields an empty array.
JSSlice(bytes, start, end) ==
    LET len == Len(bytes)
        from == IF start < 0 THEN Max(len + start, 0) ELSE Min(start, len)
        to == IF end < 0 THEN Max(len + end, 0) ELSE Min(end, len)
    IN IF to <= from THEN <<>> ELSE SubSeq(bytes, from + 1, to)

\* ---------------------------------------------------- TextEncoder / Decoder
\* TextEncoder.encode of one code point (a lone surrogate encodes as U+FFFD).
EncodeCodePoint(cp) ==
    IF cp < 128 THEN <<cp>>
    ELSE IF cp < 2048 THEN <<192 + (cp \div 64), 128 + (cp % 64)>>
    ELSE IF cp >= 55296 /\ cp <= 57343 THEN <<239, 191, 189>>
    ELSE IF cp < 65536
         THEN <<224 + (cp \div 4096), 128 + ((cp \div 64) % 64), 128 + (cp % 64)>>
    ELSE <<240 + (cp \div 262144), 128 + ((cp \div 4096) % 64),
           128 + ((cp \div 64) % 64), 128 + (cp % 64)>>

\* TextEncoder.encode: the encodings of the code points, concatenated (by
\* halves, which keeps the evaluation shallow).
RECURSIVE TextEncode(_)
TextEncode(s) ==
    IF s = <<>> THEN <<>>
    ELSE IF Len(s) = 1 THEN EncodeCodePoint(s[1])
    ELSE LET h == Len(s) \div 2
         IN TextEncode(SubSeq(s, 1, h)) \o TextEncode(SubSeq(s, h + 1, Len(s)))

IsContinuation(b) == b >= 128 /\ b <= 191

\* One step of the (non-fatal) UTF-8 decoder at index i: the code point read
\* and the number of bytes consumed; a malformed sequence yields U+FFFD.
DecodeAt(b, i) ==
    LET b1 == b[i]
        has(k) == i + k <= Len(b)
        lo2 == IF b1 = 224 THEN 160 ELSE IF b1 = 240 THEN 144 ELSE 128
        hi2 == IF b1 = 237 THEN 159 ELSE IF b1 = 244 THEN 143 ELSE 191
        ok2 == has(1) /\ b[i + 1] >= lo2 /\ b[i + 1] <= hi2
        ok3 == has(2) /\ IsContinuation(b[i + 2])
        ok4 == has(3) /\ IsContinuation(b[i + 3])
    IN IF b1 < 128 THEN [cp |-> b1, n |-> 1]
       ELSE IF b1 >= 194 /\ b1 <= 223
            THEN IF ok2 THEN [cp |-> (b1 - 192) * 64 + (b[i + 1] - 128), n |-> 2]
                 ELSE [cp |-> 65533, n |-> 1]
       ELSE IF b1 >= 224 /\ b1 <= 239
            THEN IF ~ok2 THEN [cp |-> 65533, n |-> 1]
                 ELSE IF ~ok3 THEN [cp |-> 65533, n |-> 2]
                 ELSE [cp |-> (b1 - 224) * 4096 + (b[i + 1] - 128) * 64
                                + (b[i + 2] - 128), n |-> 3]
       ELSE IF b1 >= 240 /\ b1 <= 244
            THEN IF ~ok2 THEN [cp |-> 65533, n |-> 1]
                 ELSE IF ~ok3 THEN [cp |-> 65533, n |-> 2]
                 ELSE IF ~ok4 THEN [cp |-> 65533, n |-> 3]
                 ELSE [cp |-> (b1 - 240) * 262144 + (b[i + 1] - 128) * 4096
                                + (b[i + 2] - 128) * 64 + (b[i + 3] - 128), n |-> 4]
       ELSE [cp |-> 65533, n |-> 1]

\* Whether the decoder starts a read at index i.  A read consumes, after its
\* first byte, continuation bytes only, so a byte that is not one always
\* starts a read; a continuation byte starts one (and yields U+FFFD) unless
\* the read of the nearest earlier non-continuation byte reaches it.
DecodeStartsAt(b, i) ==
    \/ ~IsContinuation(b[i])
    \/ ~\E j \in Max(1, i - 3)..(i - 1) :
            /\ ~IsContinuation(b[j])
            /\ \A k \in (j + 1)..(i - 1) : IsContinuation(b[k])
            /\ i < j + DecodeAt(b, j).n

\* TextDecoder.decode with the default options: never throws, and drops one
\* leading byte order mark.
TextDecode(b) ==
    LET starts == SelectSeq([i \in 1..Len(b) |-> i], LAMBDA i : DecodeStartsAt(b, i))
        s == [k \in 1..Len(starts) |-> DecodeAt(b, starts[k]).cp]
    IN IF s # <<>> /\ Head(s) = 65279 THEN Tail(s) ELSE s

\* -------------------------------------------------------------- btoa / atob
Pad == 64

RECURSIVE Btoa(_)
Btoa(b) ==
    IF Len(b) = 0 THEN <<>>
    ELSE IF Len(b) = 1
         THEN <<b[1] \div 4, (b[1] % 4) * 16, Pad, Pad>>
    ELSE IF Len(b) = 2
         THEN <<b[1] \div 4, (b[1] % 4) * 16 + (b[2] \div 16), (b[2] % 16) * 4, Pad>>
    ELSE <<b[1] \div 4, (b[1] % 4) * 16 + (b[2] \div 16),
           (b[2] % 16) * 4 + (b[3] \div 64), b[3] % 64>>
         \o Btoa(SubSeq(b, 4, Len(b)))

RECURSIVE AtobGroups(_)
AtobGroups(t) ==
    IF Len(t) = 0 THEN <<>>
    ELSE IF Len(t) = 2 THEN <<t[1] * 4 + (t[2] \div 16)>>
    ELSE IF Len(t) = 3
         THEN <<t[1] * 4 + (t[2] \div 16), (t[2] % 16) * 16 + (t[3] \div 4)>>
    ELSE <<t[1] * 4 + (t[2] \div 16), (t[2] % 16) * 16 + (t[3] \div 4),
           (t[3] % 4) * 64 + t[4]>>
         \o AtobGroups(SubSeq(t, 5, Len(t)))

\* atob: the forgiving base64 decode.  With a length that is a multiple of
\* four, one or two trailing pads are removed; a remaining length of 1 mod 4
\* or any remaining pad character is an InvalidCharacterError.
Atob(t) ==
    LET n == Len(t)
        cut == IF n % 4 = 0 /\ n >= 2 /\ t[n] = Pad
               THEN (IF t[n - 1] = Pad THEN 2 ELSE 1) ELSE 0
        body == SubSeq(t, 1, n - cut)
    IN IF Len(body) % 4 = 1 \/ (\E i \in 1..Len(body) : body[i] = Pad)
       THEN [ok |-> FALSE, bytes |-> <<>>]
       ELSE [ok |-> TRUE, bytes |-> AtobGroups(body)]

\* ------------------------------------------------------------ WebCrypto, KDF
\* crypto.subtle.importKey('raw', bytes, ...) and exportKey('raw', key).
ImportKey(raw) == [raw |-> raw]
ExportKey(key) == key.raw

\* The ideal memory-hard hash and the ideal PBKDF2: injective in the password
\* bytes and the salt, and never equal to each other.
Argon2id(passwordBytes, salt) == <<1, Len(passwordBytes)>> \o passwordBytes \o salt
Pbkdf2(passwordBytes, salt) == <<2, Len(passwordBytes)>> \o passwordBytes \o salt

AesGcmEncrypt(key, iv, plaintext) ==
    [key |-> ExportKey(key), iv |-> iv, pt |-> plaintext, intact |-> TRUE]

\* OperationError unless the tag verifies.
AesGcmDecrypt(key, iv, ciphertext) ==
    IF ciphertext.intact /\ ciphertext.key = ExportKey(key) /\ ciphertext.iv = iv
    THEN [ok |-> TRUE, pt |-> ciphertext.pt]
    ELSE [ok |-> FALSE, pt |-> <<>>]

\* deriveKey(password, salt).  argon2Throws is the runtime's answer to the
\* argon2id call inside the try block: when it throws, the catch block derives
\* the key with PBKDF2 instead.  Neither path looks at the salt's length or
\* at the password's.  buffers are the byte arrays enc.encode(password) has
\* created, as they are when the key is returned: passwordBytes of the try
\* block, filled with zeros only after argon2id and importKey have returned,
\* and the array the catch block hands to importKey.
deriveKey(password, salt, argon2Throws) ==
    IF ~argon2Throws
    THEN [ok |-> TRUE, key |-> ImportKey(Argon2id(TextEncode(password), salt)),
          buffers |-> <<Fill(0, Len(TextEncode(password)))>>]
    ELSE [ok |-> TRUE, key |-> ImportKey(Pbkdf2(TextEncode(password), salt)),
          buffers |-> <<TextEncode(password), TextEncode(password)>>]

\* encryptDEK(dek, masterKey) with the IV the random source returned.
encryptDEK(dek, masterKey, iv) ==
    [encryptedDEK |-> AesGcmEncrypt(masterKey, iv, ExportKey(dek)), iv |-> iv]

\* decryptDEK without the tag check: whatever the key, the plaintext comes out.
decryptDEKUnauthenticated(encryptedDEK, iv, masterKey) ==
    [ok |-> TRUE, key |-> ImportKey(encryptedDEK.pt)]

\* decryptDEK(encryptedDEK, iv, masterKey): the decrypt error propagates.
decryptDEK(encryptedDEK, iv, masterKey) ==
    LET d == AesGcmDecrypt(masterKey, iv, encryptedDEK)
    IN IF d.ok THEN [ok |-> TRUE, key |-> ImportKey(d.pt)]
       ELSE [ok |-> FALSE, key |-> ImportKey(<<>>)]

\* ------------------------------------------------------- recovery-key codec
\* DataView.setUint16(0, n, false): two bytes, big-endian, n modulo 2^16.
Uint16BE(n) == <<(n % 65536) \div 256, n % 256>>

\* generateRecoveryKey writing email.length, the count of characters, into the
\* prefix instead of the count of bytes.
generateRecoveryKeyCharLength(email, masterPassword, salt) ==
    Btoa(Uint16BE(Len(email)) \o TextEncode(email) \o TextEncode(masterPassword)
         \o salt)

generateRecoveryKey(email, masterPassword, salt) ==
    LET emailBytes == TextEncode(email)
        passwordBytes == TextEncode(masterPassword)
        combined == Uint16BE(Len(emailBytes)) \o emailBytes \o passwordBytes \o salt
    IN Btoa(combined)

RecoveryKeyError == [ok |-> FALSE, email |-> <<>>, password |-> <<>>, salt |-> <<>>,
                     error |-> "Invalid recovery key format"]

\* parseRecoveryKey(recoveryKey).  atob throws on a malformed text and
\* getUint16(0) throws a RangeError on fewer than two bytes; both are caught.
\* The three slices never throw: they clamp.
RecoveryKeyFields(bytes, emailLength) ==
    [ok |-> TRUE,
     email |-> TextDecode(JSSlice(bytes, 2, 2 + emailLength)),
     password |-> TextDecode(JSSlice(bytes, 2 + emailLength, Len(bytes) - SaltLength)),
     salt |-> JSSlice(bytes, Len(bytes) - SaltLength, Len(bytes)),
     error |-> ""]

RecoveryKeyFrom(decoded) ==
    IF ~decoded.ok \/ Len(decoded.bytes) < 2 THEN RecoveryKeyError
    ELSE RecoveryKeyFields(decoded.bytes, decoded.bytes[1] * 256 + decoded.bytes[2])

parseRecoveryKey(recoveryKey) == RecoveryKeyFrom(Atob(recoveryKey))

\* ------------------------------------------------------------------- JSON
\* A vault item is a JavaScript object with string and number properties: the
\* sequence of its members in property order, each [k, isNum, s, n].  The
\* vault is an array of items.  Strings hold no control characters.
StrMember(k, s) == [k |-> k, isNum |-> FALSE, s |-> s, n |-> 0]
NumMember(k, n) == [k |-> k, isNum |-> TRUE, s |-> <<>>, n |-> n]

RECURSIVE JSONEscape(_)
JSONEscape(s) ==
    IF s = <<>> THEN <<>>
    ELSE (IF Head(s) = 34 \/ Head(s) = 92 THEN <<92, Head(s)>> ELSE <<Head(s)>>)
         \o JSONEscape(Tail(s))

JSONQuote(s) == <<34>> \o JSONEscape(s) \o <<34>>

RECURSIVE JSONDigits(_)
JSONDigits(n) ==
    IF n < 10 THEN <<48 + n>> ELSE JSONDigits(n \div 10) \o <<48 + (n % 10)>>

JSONMember(m) ==
    JSONQuote(m.k) \o <<58>> \o (IF m.isNum THEN JSONDigits(m.n) ELSE JSONQuote(m.s))

RECURSIVE JSONJoin(_)
JSONJoin(texts) ==
    IF texts = <<>> THEN <<>>
    ELSE IF Len(texts) = 1 THEN texts[1]
    ELSE texts[1] \o <<44>> \o JSONJoin(Tail(texts))

JSONObject(item) ==
    <<123>> \o JSONJoin([i \in 1..Len(item) |-> JSONMember(item[i])]) \o <<125>>

\* JSON.stringify of an array of items.
JSONStringify(data) ==
    <<91>> \o JSONJoin([i \in 1..Len(data) |-> JSONObject(data[i])]) \o <<93>>

\* The characters of a string literal from index i (after the opening quote).
RECURSIVE ReadString(_, _, _)
ReadString(t, i, acc) ==
    IF i > Len(t) \/ t[i] < 32 THEN [ok |-> FALSE, s |-> <<>>, next |-> 0]
    ELSE IF t[i] = 34 THEN [ok |-> TRUE, s |-> acc, next |-> i + 1]
    ELSE IF t[i] = 92
         THEN IF i + 1 <= Len(t) /\ t[i + 1] \in {34, 92, 47}
              THEN ReadString(t, i + 2, Append(acc, t[i + 1]))
              ELSE [ok |-> FALSE, s |-> <<>>, next |-> 0]
    ELSE ReadString(t, i + 1, Append(acc, t[i]))

ParseString(t, i) ==
    IF i <= Len(t) /\ t[i] = 34 THEN ReadString(t, i + 1, <<>>)
    ELSE [ok |-> FALSE, s |-> <<>>, next |-> 0]

IsDigit(c) == c >= 48 /\ c <= 57

RECURSIVE ReadNumber(_, _, _)
ReadNumber(t, i, acc) ==
    IF i <= Len(t) /\ IsDigit(t[i]) THEN ReadNumber(t, i + 1, acc * 10 + (t[i] - 48))
    ELSE [ok |-> TRUE, n |-> acc, next |-> i]

ParseNumber(t, i) ==
    IF i <= Len(t) /\ IsDigit(t[i])
       /\ ~(t[i] = 48 /\ i + 1 <= Len(t) /\ IsDigit(t[i + 1]))
    THEN ReadNumber(t, i, 0)
    ELSE [ok |-> FALSE, n |-> 0, next |-> 0]

\* A later member with the same key replaces the value of the earlier one.
PutMember(item, m) ==
    IF \E j \in 1..Len(item) : item[j].k = m.k
    THEN [j \in 1..Len(item) |-> IF item[j].k = m.k THEN m ELSE item[j]]
    ELSE Append(item, m)

NoMember == [ok |-> FALSE, m |-> StrMember(<<>>, <<>>), next |-> 0]

\* A member whose key was read as key: a colon, then a string (str) or a
\* number (num).
MemberValue(t, key, str, num) ==
    IF ~key.ok \/ key.next > Len(t) \/ t[key.next] # 58 THEN NoMember
    ELSE IF str.ok THEN [ok |-> TRUE, m |-> StrMember(key.s, str.s), next |-> str.next]
    ELSE IF num.ok THEN [ok |-> TRUE, m |-> NumMember(key.s, num.n), next |-> num.next]
    ELSE NoMember

MemberAfterKey(t, key) ==
    MemberValue(t, key, ParseString(t, key.next + 1), ParseNumber(t, key.next + 1))

ParseMember(t, i) == MemberAfterKey(t, ParseString(t, i))

NoObject == [ok |-> FALSE, item |-> <<>>, next |-> 0]

\* The members of an object from index i; m is the member read there.
RECURSIVE ReadMembers(_, _, _)
RECURSIVE MembersAfter(_, _, _)
MembersAfter(t, acc, m) ==
    IF ~m.ok \/ m.next > Len(t) THEN NoObject
    ELSE IF t[m.next] = 125
         THEN [ok |-> TRUE, item |-> PutMember(acc, m.m), next |-> m.next + 1]
    ELSE IF t[m.next] = 44 THEN ReadMembers(t, m.next + 1, PutMember(acc, m.m))
    ELSE NoObject

ReadMembers(t, i, acc) == MembersAfter(t, acc, ParseMember(t, i))

ParseObject(t, i) ==
    IF i + 1 <= Len(t) /\ t[i] = 123
    THEN IF t[i + 1] = 125 THEN [ok |-> TRUE, item |-> <<>>, next |-> i + 2]
         ELSE ReadMembers(t, i + 1, <<>>)
    ELSE NoObject

NoArray == [ok |-> FALSE, items |-> <<>>, next |-> 0]

\* The elements of an array from index i; o is the object read there.
RECURSIVE ReadItems(_, _, _)
RECURSIVE ItemsAfter(_, _, _)
ItemsAfter(t, acc, o) ==
    IF ~o.ok \/ o.next > Len(t) THEN NoArray
    ELSE IF t[o.next] = 93
         THEN [ok |-> TRUE, items |-> Append(acc, o.item), next |-> o.next + 1]
    ELSE IF t[o.next] = 44 THEN ReadItems(t, o.next + 1, Append(acc, o.item))
    ELSE NoArray

ReadItems(t, i, acc) == ItemsAfter(t, acc, ParseObject(t, i))

ParseArray(t, i) ==
    IF i + 1 <= Len(t) /\ t[i] = 91
    THEN IF t[i + 1] = 93 THEN [ok |-> TRUE, items |-> <<>>, next |-> i + 2]
         ELSE ReadItems(t, i + 1, <<>>)
    ELSE NoArray

\* JSON.parse: a SyntaxError (ok = FALSE) unless the whole text is one value.
\* A value that is not an array of objects parses too (isArray = FALSE).
JSONWhole(t, r) == r.ok /\ r.next = Len(t) + 1

JSONValue(t, a, o, s, n) ==
    IF JSONWhole(t, a) THEN [ok |-> TRUE, isArray |-> TRUE, items |-> a.items]
    ELSE IF JSONWhole(t, o) \/ JSONWhole(t, s) \/ JSONWhole(t, n)
         THEN [ok |-> TRUE, isArray |-> FALSE, items |-> <<>>]
    ELSE [ok |-> FALSE, isArray |-> FALSE, items |-> <<>>]

JSONParse(t) ==
    JSONValue(t, ParseArray(t, 1), ParseObject(t, 1), ParseString(t, 1),
              ParseNumber(t, 1))

\* ------------------------------------------------------------- vault codec
\* encryptVault with a constant IV instead of the random one.
encryptVaultConstantIV(data, dek, iv) ==
    [encryptedVault |-> AesGcmEncrypt(dek, Fill(0, IVLength),
                                      TextEncode(JSONStringify(data))),
     iv |-> Fill(0, IVLength)]

\* encryptVault(data, dek) with the IV the random source returned.
encryptVault(data, dek, iv) ==
    [encryptedVault |-> AesGcmEncrypt(dek, iv, TextEncode(JSONStringify(data))),
     iv |-> iv]

VaultError == [ok |-> FALSE, isArray |-> FALSE, items |-> <<>>,
               error |-> "Failed to decrypt vault. Wrong password or corrupted data."]

\* decryptVault(encryptedVault, iv, dek): one catch block turns the decrypt
\* error and the JSON.parse error into the same Error.
VaultOf(parsed) ==
    IF ~parsed.ok THEN VaultError
    ELSE [ok |-> TRUE, isArray |-> parsed.isArray, items |-> parsed.items,
          error |-> ""]

VaultFromPlaintext(d) ==
    IF ~d.ok THEN VaultError ELSE VaultOf(JSONParse(TextDecode(d.pt)))

\* decryptVault handing the decrypted bytes to JSON.parse without decoding
\* them as UTF-8.
decryptVaultUndecoded(encryptedVault, iv, dek) ==
    IF ~AesGcmDecrypt(dek, iv, encryptedVault).ok THEN VaultError
    ELSE VaultOf(JSONParse(AesGcmDecrypt(dek, iv, encryptedVault).pt))

decryptVault(encryptedVault, iv, dek) ==
    VaultFromPlaintext(AesGcmDecrypt(dek, iv, encryptedVault))

\* ------------------------------------------------------------------ inputs
\* Text a user can type: ASCII, a two-byte and a three-byte character.
EmailAlphabet == {97, 64, 233, 8364}

RECURSIVE StringsUpTo(_, _)
StringsUpTo(alphabet, n) ==
    IF n = 0 THEN {<<>>}
    ELSE LET shorter == StringsUpTo(alphabet, n - 1)
         IN shorter \cup {Append(s, c) : s \in shorter, c \in alphabet}

Emails == StringsUpTo(EmailAlphabet, MaxEmailChars)

\* "CorrectHorse" and "p(a-umlaut)ssword1234": twelve characters each.
PasswordA == <<67, 111, 114, 114, 101, 99, 116, 72, 111, 114, 115, 101>>
PasswordB == <<112, 228, 115, 115, 119, 111, 114, 100, 49, 50, 51, 52>>
MasterPasswords == {PasswordA, PasswordB}

\* What the random source can return for a salt, a DEK and an IV.
SaltA == Fill(0, SaltLength)
SaltB == [i \in 1..SaltLength |-> 200 + (i % 7)]
Salts == {SaltA, SaltB}
ShortSalt == Fill(9, 16)

DEKs == {ImportKey(Fill(7, 32)), ImportKey([i \in 1..32 |-> i])}
IVs == {Fill(1, IVLength), Fill(2, IVLength)}

\* Property names of a vault item, in the order handleAddItem creates them.
KeyName == <<110, 97, 109, 101>>
KeyUrl == <<117, 114, 108>>
KeyUsername == <<117, 115, 101, 114, 110, 97, 109, 101>>
KeyPassword == <<112, 97, 115, 115, 119, 111, 114, 100>>
KeyNote == <<110, 111, 116, 101>>
KeyId == <<105, 100>>
KeyCreatedAt == <<99, 114, 101, 97, 116, 101, 100, 65, 116>>

\* { ...newItem, id, createdAt }
MakeItem(name, url, username, password, note, id, createdAt) ==
    << StrMember(KeyName, name), StrMember(KeyUrl, url),
       StrMember(KeyUsername, username), StrMember(KeyPassword, password),
       StrMember(KeyNote, note), StrMember(KeyId, id),
       NumMember(KeyCreatedAt, createdAt) >>

\* name "Ex", user "u@x", secret "p@ss"; a name with a quote, a backslash and
\* a non-ASCII letter; empty optional fields.
ItemPool ==
    { MakeItem(<<69, 120>>, <<104, 58, 47, 47, 120>>, <<117, 64, 120>>,
               <<112, 64, 115, 115>>, <<>>, <<49>>, 1700000000),
      MakeItem(<<97, 34, 92, 233>>, <<>>, <<117>>, <<34>>, <<8364>>, <<50>>, 0),
      MakeItem(<<98>>, <<>>, <<118>>, <<92, 92>>, <<>>, <<51>>, 7),
      MakeItem(<<99>>, <<>>, <<119>>, <<113>>, <<110, 34>>, <<52>>, 10) }

RECURSIVE VaultsUpTo(_)
VaultsUpTo(n) ==
    IF n = 0 THEN {<<>>}
    ELSE LET shorter == VaultsUpTo(n - 1)
         IN shorter \cup {Append(v, it) : v \in shorter, it \in ItemPool}

\* =================================================================== state
VARIABLES
    rk,             \* recovery-key codec: the triple, the token, the parse result
    env,            \* envelope: derive, wrap, derive again, unwrap
    vc,             \* vault codec: encrypt, decrypt
    nc,             \* the IVs of a run of encryptDEK and encryptVault calls
    sk,             \* session keys: the module variables and SecureStore entries
    sv,             \* overlapping saveVault calls of one Vault screen
    pl,             \* one pullFromRemote: storage and server before, storage after
    sy,             \* one useSync: its status, the calls in flight, the timers
    storageRev,     \* the storage.js revision the bundle holds
    syncRev,        \* the useSync revision the bundle holds
    authToken,      \* SecureStore auth_token ("" when absent)
    userEmail,      \* AsyncStorage user_email (<<>> when absent)
    vaultData,      \* AsyncStorage vault_data
    vaultVersion,   \* AsyncStorage vault_version
    storedSalt,     \* SecureStore salt, base64
    session,        \* storage.js sessionMasterKey / sessionDEK
    secureSession,  \* SecureStore session_master_key, session_dek, session_active
    token,          \* App state: token
    email,          \* App state: email
    keyPair,        \* App state: keyPair
    form,           \* LoginScreen state
    recoveryFile,   \* the recovery key file the user saved
    server,         \* the backend's account and vault row
    request,        \* the push the last handler sent: its fields and the answer
    items,          \* VaultScreen state: items
    syncStatus,     \* useSync state: syncStatus
    timers,         \* pending setTimeout(() => setSyncStatus('idle'), 2000)
    mount,          \* effects still to run after the Vault screen mounted
    unlockForm,     \* UnlockScreen state: masterPassword
    enrolled        \* what handleRegister bound to the account

codecVars == <<rk, env, vc, nc, sk, sv, pl, sy>>
appVars == <<storageRev, syncRev, authToken, userEmail, vaultData, vaultVersion, storedSalt,
             session, secureSession, token, email, keyPair, form, recoveryFile,
             server, request, items, syncStatus, timers, mount, unlockForm,
             enrolled>>
vars == <<rk, env, vc, nc, sk, sv, pl, sy, storageRev, syncRev, authToken, userEmail, vaultData, vaultVersion,
          storedSalt, session, secureSession, token, email, keyPair, form,
          recoveryFile, server, request, items, syncStatus, timers, mount,
          unlockForm, enrolled>>

\* ------------------------------------------------------------ absent values
NoKey == ImportKey(<<>>)
NoCipher == [key |-> <<>>, iv |-> <<>>, pt |-> <<>>, intact |-> FALSE]
NoParse == [ok |-> FALSE, email |-> <<>>, password |-> <<>>, salt |-> <<>>,
            error |-> ""]

\* A blob is a JavaScript object: has is the set of its defined properties.
NoBlob == [has |-> {}, encryptedVault |-> NoCipher, vaultIV |-> <<>>,
           encryptedDEK |-> NoCipher, dekIV |-> <<>>, salt |-> <<>>, version |-> 0]

RkStart == [origin |-> "none", email |-> <<>>, password |-> <<>>, salt |-> <<>>,
                token |-> <<>>, parsed |-> FALSE, result |-> NoParse]

EnvStart == [stage |-> "start", password |-> <<>>, salt |-> <<>>,
                  kek |-> [ok |-> FALSE, key |-> NoKey, buffers |-> <<>>], dek |-> NoKey,
                  encryptedDEK |-> NoCipher, iv |-> <<>>,
                  password2 |-> <<>>, salt2 |-> <<>>,
                  kek2 |-> [ok |-> FALSE, key |-> NoKey, buffers |-> <<>>],
                  out |-> [ok |-> FALSE, key |-> NoKey]]

VcStart == [stage |-> "start", data |-> <<>>, dek |-> NoKey,
                encryptedVault |-> NoCipher, iv |-> <<>>, out |-> VaultError]

\* No call made yet: draws counts the values the random source has returned.
NcStart == [draws |-> 0, calls |-> <<>>]

\* The session keys of storage.js before any call: the two module variables,
\* the three SecureStore entries, what the last getSessionKeys and the last
\* isSessionActive returned, and whether clearSessionKeys was the last of
\* setSessionKeys and clearSessionKeys to complete.
SkStart == [stage |-> "start",
            memory |-> [present |-> FALSE, masterKey |-> NoKey, dek |-> NoKey],
            secure |-> [active |-> FALSE, masterKey |-> [set |-> FALSE, b64 |-> <<>>],
                        dek |-> [set |-> FALSE, b64 |-> <<>>]],
            cleared |-> FALSE,
            keys |-> [present |-> FALSE, masterKey |-> NoKey, dek |-> NoKey],
            active |-> FALSE]

\* A Vault screen with an empty stored vault: items is the state of the screen,
\* stored what AsyncStorage holds under vault_data, calls the saveVault calls
\* started so far with the place each has reached.
SvDEK == ImportKey(Fill(7, 32))

SvIV(i) == Fill(i, IVLength)

SvStart == [items |-> <<>>,
            stored |-> encryptVault(<<>>, SvDEK, Fill(0, IVLength)),
            calls |-> <<>>]

\* Before a pull: the build, the stored vault and marker, the backend's row,
\* and after it the stored vault and marker again.
PlStart == [stage |-> "start", rev |-> "version", storage |-> "version",
            vaultData |-> [present |-> FALSE, blob |-> NoBlob],
            vaultVersion |-> [set |-> FALSE, v |-> 0],
            server |-> [hasAccount |-> FALSE, email |-> <<>>, hasVault |-> FALSE,
                        blob |-> NoBlob, marker |-> 0],
            netOk |-> FALSE, status |-> "idle",
            vaultDataAfter |-> [present |-> FALSE, blob |-> NoBlob],
            vaultVersionAfter |-> [set |-> FALSE, v |-> 0]]

\* A useSync before its Vault screen mounts: the status, the pushToRemote and
\* pullFromRemote calls in flight, the calls started so far, the pending
\* timers, and the stored vault and marker.
SyStart == [stage |-> "start", rev |-> "version", storage |-> "version",
            syncStatus |-> "idle", push |-> 0, pull |-> 0, started |-> 0,
            timers |-> 0,
            vaultData |-> [present |-> FALSE, blob |-> NoBlob],
            vaultVersion |-> [set |-> FALSE, v |-> 0]]

Init ==
    /\ rk = RkStart
    /\ env = EnvStart
    /\ vc = VcStart
    /\ nc = NcStart
    /\ sk = SkStart
    /\ sv = SvStart
    /\ pl = PlStart
    /\ sy = SyStart
    /\ storageRev \in {"version", "timestamp"}
    /\ syncRev \in {"version", "timestamp"}
    /\ authToken = ""
    /\ userEmail = <<>>
    /\ vaultData = [present |-> FALSE, blob |-> NoBlob]
    /\ vaultVersion = [set |-> FALSE, v |-> 0]
    /\ storedSalt = [set |-> FALSE, b64 |-> <<>>]
    /\ session = [present |-> FALSE, masterKey |-> NoKey, dek |-> NoKey]
    /\ secureSession = [active |-> FALSE,
                        masterKey |-> [set |-> FALSE, b64 |-> <<>>],
                        dek |-> [set |-> FALSE, b64 |-> <<>>]]
    /\ token = ""
    /\ email = <<>>
    /\ keyPair = [present |-> FALSE, masterKey |-> NoKey, dek |-> NoKey]
    /\ form = [email |-> <<>>, accountPassword |-> <<>>, masterPassword |-> <<>>,
               recoveryKeyDownloaded |-> FALSE]
    /\ recoveryFile = [present |-> FALSE, token |-> <<>>]
    /\ server = [hasAccount |-> FALSE, email |-> <<>>, hasVault |-> FALSE,
                 blob |-> NoBlob, marker |-> 0]
    /\ request = [sent |-> FALSE, origin |-> "", has |-> {}, hasMarker |-> FALSE,
                  answer |-> "", body |-> {}]
    /\ items = <<>>
    /\ syncStatus = "idle"
    /\ timers = 0
    /\ mount = {}
    /\ unlockForm = <<>>
    /\ enrolled = [done |-> FALSE, email |-> <<>>, password |-> <<>>, salt |-> <<>>,
                   argon2Throws |-> FALSE, masterKey |-> NoKey, dek |-> NoKey,
                   encryptedDEK |-> NoCipher, dekIV |-> <<>>]

\* What the harnesses of crypto.js leave alone: one bundle, nothing stored.
CodecInit == Init /\ storageRev = "version" /\ syncRev = "version"

\* ======================================================= recovery-key codec
RkPasswords == MasterPasswords \cup {<<8364, 112>>}
DeclaredLengths == {0, 3, 40}

\* Tokens that generateRecoveryKey did not make: the base64 of a length prefix
\* followed by filler, cut at every length, and a text that is not base64.
ForeignTokens ==
    {Btoa(JSSlice(Uint16BE(d) \o Fill(65, MaxTokenBytes), 0, n)) :
        d \in DeclaredLengths, n \in 0..MaxTokenBytes}
    \cup {<<19>>}

RkGenerate ==
    /\ rk.origin = "none"
    /\ \E e \in Emails, p \in RkPasswords, s \in Salts :
          rk' = [origin |-> "generated", email |-> e, password |-> p, salt |-> s,
                 token |-> generateRecoveryKey(e, p, s),
                 parsed |-> FALSE, result |-> NoParse]
    /\ UNCHANGED <<env, vc, nc, sk, sv, pl, sy>>
    /\ UNCHANGED appVars

RkSupply ==
    /\ rk.origin = "none"
    /\ \E t \in ForeignTokens :
          rk' = [origin |-> "foreign", email |-> <<>>, password |-> <<>>,
                 salt |-> <<>>, token |-> t, parsed |-> FALSE, result |-> NoParse]
    /\ UNCHANGED <<env, vc, nc, sk, sv, pl, sy>>
    /\ UNCHANGED appVars

RkParse ==
    /\ rk.origin # "none"
    /\ ~rk.parsed
    /\ rk' = [rk EXCEPT !.parsed = TRUE, !.result = parseRecoveryKey(rk.token)]
    /\ UNCHANGED <<env, vc, nc, sk, sv, pl, sy>>
    /\ UNCHANGED appVars

RkNext == RkGenerate \/ RkSupply \/ RkParse

SpecRecovery == CodecInit /\ [][RkNext]_vars

RkDecodedLength == Len(Atob(rk.token).bytes)
RkDeclaredLength ==
    LET b == Atob(rk.token).bytes IN IF Len(b) < 2 THEN 0 ELSE b[1] * 256 + b[2]

ShortRecoveryKeyRefused ==
    (rk.parsed /\ RkDecodedLength < 2 + SaltLength) =>
        (~rk.result.ok /\ rk.result.error = "Invalid recovery key format")

\* C7: a token whose declared email length runs past the bytes before the
\* final 32-byte salt is refused with the malformed-recovery-key error.
OverlongEmailLengthRefused ==
    (rk.parsed /\ 2 + RkDeclaredLength > RkDecodedLength - SaltLength) =>
        (~rk.result.ok /\ rk.result.error = "Invalid recovery key format")

\* ================================================================ envelope
EnvPasswords == MasterPasswords \cup {<<>>}
EnvSalts == Salts \cup {ShortSalt}

EnvDerive ==
    /\ env.stage = "start"
    /\ \E p \in EnvPasswords, s \in EnvSalts, argon2Throws \in BOOLEAN :
          env' = [env EXCEPT !.stage = "derived", !.password = p, !.salt = s,
                             !.kek = deriveKey(p, s, argon2Throws)]
    /\ UNCHANGED <<rk, vc, nc, sk, sv, pl, sy>>
    /\ UNCHANGED appVars

EnvWrap ==
    /\ env.stage = "derived"
    /\ env.kek.ok
    /\ \E dek \in DEKs, iv \in IVs :
          LET w == encryptDEK(dek, env.kek.key, iv)
          IN env' = [env EXCEPT !.stage = "wrapped", !.dek = dek,
                                !.encryptedDEK = w.encryptedDEK, !.iv = w.iv]
    /\ UNCHANGED <<rk, vc, nc, sk, sv, pl, sy>>
    /\ UNCHANGED appVars

\* The later derivation, from the same or from another password and salt.
EnvDeriveAgain ==
    /\ env.stage = "wrapped"
    /\ \E p \in EnvPasswords, s \in EnvSalts, argon2Throws \in BOOLEAN :
          env' = [env EXCEPT !.stage = "rederived", !.password2 = p, !.salt2 = s,
                             !.kek2 = deriveKey(p, s, argon2Throws)]
    /\ UNCHANGED <<rk, vc, nc, sk, sv, pl, sy>>
    /\ UNCHANGED appVars

EnvUnwrap ==
    /\ env.stage = "rederived"
    /\ env.kek2.ok
    /\ env' = [env EXCEPT !.stage = "unwrapped",
                          !.out = decryptDEK(env.encryptedDEK, env.iv, env.kek2.key)]
    /\ UNCHANGED <<rk, vc, nc, sk, sv, pl, sy>>
    /\ UNCHANGED appVars

EnvNext == EnvDerive \/ EnvWrap \/ EnvDeriveAgain \/ EnvUnwrap

SpecEnvelope == CodecInit /\ [][EnvNext]_vars

\* C1: a DEK wrapped under deriveKey(password, salt) is returned, byte for
\* byte, by unwrapping under the key derived again from that password and
\* that 32-byte salt.
EnvelopeRoundTrip ==
    (/\ env.stage = "unwrapped"
     /\ env.password2 = env.password /\ env.salt2 = env.salt
     /\ Len(env.salt) = SaltLength) =>
        (env.out.ok /\ ExportKey(env.out.key) = ExportKey(env.dek))

\* C8: deriveKey returns no key for a salt that is not 32 bytes long or for
\* an empty password.
DeriveKeyRefusesBadInput ==
    (env.stage # "start" /\ (Len(env.salt) # SaltLength \/ env.password = <<>>)) =>
        ~env.kek.ok

\* ============================================================= vault codec
VcEncrypt ==
    /\ vc.stage = "start"
    /\ \E data \in VaultsUpTo(MaxItems), dek \in DEKs, iv \in IVs :
          LET e == encryptVault(data, dek, iv)
          IN vc' = [vc EXCEPT !.stage = "encrypted", !.data = data, !.dek = dek,
                              !.encryptedVault = e.encryptedVault, !.iv = e.iv]
    /\ UNCHANGED <<rk, env, nc, sk, sv, pl, sy>>
    /\ UNCHANGED appVars

VcDecrypt ==
    /\ vc.stage = "encrypted"
    /\ vc' = [vc EXCEPT !.stage = "decrypted",
                        !.out = decryptVault(vc.encryptedVault, vc.iv, vc.dek)]
    /\ UNCHANGED <<rk, env, nc, sk, sv, pl, sy>>
    /\ UNCHANGED appVars

VcNext == VcEncrypt \/ VcDecrypt

SpecVault == CodecInit /\ [][VcNext]_vars

\* What a DEK may have sealed: serialised vaults, and bytes that are not one
\* ("[{", "x", "{}", "1", "nul", the empty text, one byte that is not UTF-8).
SealedPlaintexts ==
    {TextEncode(JSONStringify(data)) : data \in VaultsUpTo(1)}
        \cup {<<91, 123>>, <<120>>, <<123, 125>>, <<49>>, <<110, 117, 108>>, <<>>, <<255>>}

\* The bytes parse as an array, the shape of a vault.
IsVaultPlaintext(pt) ==
    JSONParse(TextDecode(pt)).ok /\ JSONParse(TextDecode(pt)).isArray

\* A ciphertext under some DEK and IV, as storage or the server may hold it.
VfSeal ==
    /\ vc.stage = "start"
    /\ \E pt \in SealedPlaintexts, dek \in DEKs, iv \in IVs :
          vc' = [vc EXCEPT !.stage = "sealed", !.dek = dek, !.iv = iv,
                           !.encryptedVault = AesGcmEncrypt(dek, iv, pt)]
    /\ UNCHANGED <<rk, env, nc, sk, sv, pl, sy>>
    /\ UNCHANGED appVars

\* decryptVault with the DEK and the IV of the ciphertext.
VfDecrypt ==
    /\ vc.stage = "sealed"
    /\ vc' = [vc EXCEPT !.stage = "decrypted",
                        !.out = decryptVault(vc.encryptedVault, vc.iv, vc.dek)]
    /\ UNCHANGED <<rk, env, nc, sk, sv, pl, sy>>
    /\ UNCHANGED appVars

\* decryptVault with another DEK.
VfDecryptWrongKey ==
    /\ vc.stage = "sealed"
    /\ \E dek \in DEKs \ {vc.dek} :
          vc' = [vc EXCEPT !.stage = "wrongKey",
                           !.out = decryptVault(vc.encryptedVault, vc.iv, dek)]
    /\ UNCHANGED <<rk, env, nc, sk, sv, pl, sy>>
    /\ UNCHANGED appVars

\* decryptVault of the ciphertext after a byte of it was changed.
VfDecryptTampered ==
    /\ vc.stage = "sealed"
    /\ vc' = [vc EXCEPT !.stage = "tampered",
                        !.out = decryptVault([vc.encryptedVault EXCEPT !.intact = FALSE],
                                             vc.iv, vc.dek)]
    /\ UNCHANGED <<rk, env, nc, sk, sv, pl, sy>>
    /\ UNCHANGED appVars

VfNext == VfSeal \/ VfDecrypt \/ VfDecryptWrongKey \/ VfDecryptTampered

SpecVaultErrors == CodecInit /\ [][VfNext]_vars

\* C3: decrypting what encryptVault made of a record collection, the empty
\* one included, returns that collection: the same records, the same fields,
\* the same order.
VaultRoundTrip ==
    vc.stage = "decrypted" =>
        (vc.out.ok /\ vc.out.isArray /\ vc.out.items = vc.data)

VaultRoundTripWitness ==
    /\ vc.stage = "decrypted" /\ vc.out.ok
    /\ Len(vc.data) = MaxItems
    /\ \E i \in 1..Len(vc.data) : \E j \in 1..Len(vc.data[i]) :
          \E k \in 1..Len(vc.data[i][j].s) : vc.data[i][j].s[k] \in {34, 92, 233}

\* ================================================================== the IVs
\* crypto.getRandomValues(new Uint8Array(12)), the n-th value the random
\* source returns: twelve bytes, and no value twice.
getRandomValues(n) == [i \in 1..IVLength |-> IF i = IVLength THEN n % 256 ELSE 0]

\* What a call leaves behind: the IV it returned, to be stored next to the
\* ciphertext, and the ciphertext, which holds the key and the IV AES-GCM ran
\* with.
NcCall(kind, iv, ciphertext) ==
    [draws |-> nc.draws + 1,
     calls |-> Append(nc.calls, [kind |-> kind, iv |-> iv, ciphertext |-> ciphertext])]

\* encryptDEK(dek, masterKey) under one master key.
NcEncryptDEK ==
    /\ nc.draws < MaxDraws
    /\ \E dek \in DEKs :
          LET w == encryptDEK(dek, ImportKey(Fill(9, 32)), getRandomValues(nc.draws))
          IN nc' = NcCall("encryptDEK", w.iv, w.encryptedDEK)
    /\ UNCHANGED <<rk, env, vc, sk, sv, pl, sy>>
    /\ UNCHANGED appVars

\* encryptVault(data, dek) under one DEK.
NcEncryptVault ==
    /\ nc.draws < MaxDraws
    /\ \E data \in VaultsUpTo(1) :
          LET e == encryptVault(data, ImportKey(Fill(7, 32)), getRandomValues(nc.draws))
          IN nc' = NcCall("encryptVault", e.iv, e.encryptedVault)
    /\ UNCHANGED <<rk, env, vc, sk, sv, pl, sy>>
    /\ UNCHANGED appVars

NcNext == NcEncryptDEK \/ NcEncryptVault

SpecIV == CodecInit /\ [][NcNext]_vars

Screen ==
    IF token = "" THEN "Login" ELSE IF ~keyPair.present THEN "Unlock" ELSE "Vault"

Jwt == "jwt"
AccountEmail == <<233, 64, 98>>
FormEmails == {AccountEmail}
AppItemPool ==
    { MakeItem(<<97, 34, 92, 233>>, <<>>, <<117>>, <<34>>, <<8364>>, <<50>>, 0) }

\* What the app's actions draw from: the passwords the user types, and what
\* the random source returns.
AccountPassword == <<115, 51, 99, 114, 51, 116>>
FormPasswords == {PasswordA}
RegisterSalts == {SaltA}
AppDEKs == {ImportKey(Fill(7, 32))}
RegisterIVs == {<<Fill(1, IVLength), Fill(2, IVLength)>>}
SaveIVs == {Fill(1, IVLength)}
OtherDeviceIVs == {Fill(1, IVLength)}
OtherDeviceItem == MakeItem(<<98>>, <<>>, <<118>>, <<92, 92>>, <<>>, <<51>>, 7)

\* Every collection the Vault screen can hold within MaxItems, with its
\* encryptVault under every DEK and IV, and the decryptVault of each of those:
\* the two functions are computed once.
RECURSIVE VaultsOver(_, _)
VaultsOver(pool, n) ==
    IF n = 0 THEN {<<>>}
    ELSE LET shorter == VaultsOver(pool, n - 1)
         IN shorter \cup {Append(v, it) : v \in shorter, it \in pool}

AppVaults == VaultsOver(AppItemPool \cup {OtherDeviceItem}, MaxItems)

EncryptedVaults ==
    [v \in AppVaults, dek \in AppDEKs, iv \in IVs |-> encryptVault(v, dek, iv)]

DecryptedVaults ==
    [c \in {EncryptedVaults[k].encryptedVault : k \in DOMAIN EncryptedVaults},
     iv \in IVs, dek \in AppDEKs |-> decryptVault(c, iv, dek)]

NoRequest == [sent |-> FALSE, origin |-> "", has |-> {}, hasMarker |-> FALSE,
              answer |-> "", body |-> {}]

\* ---------------------------------------------------------------- storage
\* getSalt / setSalt: the salt is kept as base64 text.
getSalt ==
    IF storedSalt.set /\ storedSalt.b64 # <<>> /\ Atob(storedSalt.b64).ok
    THEN [present |-> TRUE, salt |-> Atob(storedSalt.b64).bytes]
    ELSE [present |-> FALSE, salt |-> <<>>]

setSalt(salt) == [set |-> TRUE, b64 |-> Btoa(salt)]

\* getVaultVersion / getVaultLastModified: 0 (the epoch) when nothing is stored.
getVaultMarker == IF vaultVersion.set THEN vaultVersion.v ELSE 0

setVaultMarker(m) == [set |-> TRUE, v |-> m]

\* setSessionKeys(masterKey, dek): the module variables and the base64 copies.
SessionOf(masterKey, dek) == [present |-> TRUE, masterKey |-> masterKey, dek |-> dek]

SecureSessionOf(masterKey, dek) ==
    [active |-> TRUE,
     masterKey |-> [set |-> TRUE, b64 |-> Btoa(ExportKey(masterKey))],
     dek |-> [set |-> TRUE, b64 |-> Btoa(ExportKey(dek))]]

\* getSessionKeys without the SecureStore backup: only the module variables.
getSessionKeysMemoryOnly(memory, secure) ==
    IF memory.present THEN memory
    ELSE [present |-> FALSE, masterKey |-> ImportKey(<<>>), dek |-> ImportKey(<<>>)]

\* getSessionKeys(): the module variables when both are set; else the base64
\* copies of SecureStore, decoded and imported again; null when the session is
\* not active, a copy is missing or atob throws.
getSessionKeys(memory, secure) ==
    IF memory.present THEN memory
    ELSE IF /\ secure.active
            /\ secure.masterKey.set /\ secure.masterKey.b64 # <<>>
            /\ secure.dek.set /\ secure.dek.b64 # <<>>
            /\ Atob(secure.masterKey.b64).ok /\ Atob(secure.dek.b64).ok
    THEN [present |-> TRUE,
          masterKey |-> ImportKey(Atob(secure.masterKey.b64).bytes),
          dek |-> ImportKey(Atob(secure.dek.b64).bytes)]
    ELSE [present |-> FALSE, masterKey |-> ImportKey(<<>>), dek |-> ImportKey(<<>>)]

NoSession == [present |-> FALSE, masterKey |-> NoKey, dek |-> NoKey]
NoSecureSession == [active |-> FALSE, masterKey |-> [set |-> FALSE, b64 |-> <<>>],
                    dek |-> [set |-> FALSE, b64 |-> <<>>]]
NoKeyPair == [present |-> FALSE, masterKey |-> NoKey, dek |-> NoKey]
NoVault == [present |-> FALSE, blob |-> NoBlob]
NoMarker == [set |-> FALSE, v |-> 0]
NoSalt == [set |-> FALSE, b64 |-> <<>>]
EmptyForm == [email |-> <<>>, accountPassword |-> <<>>, masterPassword |-> <<>>,
              recoveryKeyDownloaded |-> FALSE]

\* ------------------------------------------------- saveVault calls alone
\* handleAddItem or handleDeleteItem up to the first await of saveVault:
\* updatedItems is made from the items of the current render, setItems.
SvStarted(updatedItems) ==
    sv' = [sv EXCEPT !.items = updatedItems,
                     !.calls = Append(@, [at |-> "encryptVault",
                                          updatedItems |-> updatedItems,
                                          updatedVault |-> sv.stored,
                                          read |-> sv.stored])]

SvAddItem ==
    /\ Len(sv.calls) < MaxSaves
    /\ \E item \in ItemPool :
          /\ \A k \in 1..Len(sv.items) : sv.items[k] # item
          /\ SvStarted(Append(sv.items, item))
    /\ UNCHANGED <<rk, env, vc, nc, sk, pl, sy>>
    /\ UNCHANGED appVars

SvDeleteItem ==
    /\ Len(sv.calls) < MaxSaves
    /\ \E k \in 1..Len(sv.items) :
          SvStarted(SelectSeq(sv.items, LAMBDA it : it # sv.items[k]))
    /\ UNCHANGED <<rk, env, vc, nc, sk, pl, sy>>
    /\ UNCHANGED appVars

\* await encryptVault(updatedItems, dek) and await getVault(): the spread of
\* the current vault adds fields that no saveVault changes.
SvEncryptVault(i) ==
    /\ sv.calls[i].at = "encryptVault"
    /\ sv' = [sv EXCEPT !.calls[i].at = "setVault",
                        !.calls[i].updatedVault =
                            encryptVault(sv.calls[i].updatedItems, SvDEK, SvIV(i))]
    /\ UNCHANGED <<rk, env, vc, nc, sk, pl, sy>>
    /\ UNCHANGED appVars

\* await setVault(updatedVault) and await setVaultLastModified(lastModified).
SvSetVault(i) ==
    /\ sv.calls[i].at = "setVault"
    /\ sv' = [sv EXCEPT !.stored = sv.calls[i].updatedVault,
                        !.calls[i].at = "pushToRemote"]
    /\ UNCHANGED <<rk, env, vc, nc, sk, pl, sy>>
    /\ UNCHANGED appVars

\* await pushToRemote(encryptedBlob, lastModified): loadVault() is called when
\* result.success.
SvPushToRemote(i, success) ==
    /\ sv.calls[i].at = "pushToRemote"
    /\ sv' = [sv EXCEPT !.calls[i].at = IF success THEN "getVault" ELSE "failed"]
    /\ UNCHANGED <<rk, env, vc, nc, sk, pl, sy>>
    /\ UNCHANGED appVars

\* loadVault: await getVault().
SvLoadGetVault(i) ==
    /\ sv.calls[i].at = "getVault"
    /\ sv' = [sv EXCEPT !.calls[i].at = "decryptVault", !.calls[i].read = sv.stored]
    /\ UNCHANGED <<rk, env, vc, nc, sk, pl, sy>>
    /\ UNCHANGED appVars

\* loadVault: await decryptVault(...), then setItems.
SvLoadSetItems(i) ==
    /\ sv.calls[i].at = "decryptVault"
    /\ sv' = [sv EXCEPT !.calls[i].at = "loaded",
                        !.items = decryptVault(sv.calls[i].read.encryptedVault,
                                               sv.calls[i].read.iv, SvDEK).items]
    /\ UNCHANGED <<rk, env, vc, nc, sk, pl, sy>>
    /\ UNCHANGED appVars

SvNext ==
    \/ SvAddItem
    \/ SvDeleteItem
    \/ \E i \in 1..Len(sv.calls) : SvEncryptVault(i)
    \/ \E i \in 1..Len(sv.calls) : SvSetVault(i)
    \/ \E i \in 1..Len(sv.calls), success \in BOOLEAN : SvPushToRemote(i, success)
    \/ \E i \in 1..Len(sv.calls) : SvLoadGetVault(i)
    \/ \E i \in 1..Len(sv.calls) : SvLoadSetItems(i)

SpecSave == CodecInit /\ [][SvNext]_vars

\* ----------------------------------------------------- session keys alone
\* clearSessionKeys' three deleteItemAsync calls stand in one try block, in the
\* order master key, DEK, active flag: when the call number failAt throws, it
\* and the calls after it delete nothing (failAt = 0: none throws).
clearSessionKeys(secure, failAt) ==
    [active |-> IF failAt = 0 THEN FALSE ELSE secure.active,
     masterKey |-> IF failAt = 0 \/ failAt > 1 THEN [set |-> FALSE, b64 |-> <<>>]
                   ELSE secure.masterKey,
     dek |-> IF failAt = 0 \/ failAt > 2 THEN [set |-> FALSE, b64 |-> <<>>]
             ELSE secure.dek]

\* isSessionActive(): both module variables set, or session_active is 'true'.
isSessionActive(memory, secure) == memory.present \/ secure.active

\* The pairs of keys an unlock may hand to setSessionKeys.
SessionKeyPairs ==
    {<<ImportKey(Fill(9, 32)), dek>> : dek \in DEKs}
        \cup {<<ImportKey(Fill(8, 32)), dek>> : dek \in DEKs}

SkSetSessionKeys ==
    /\ \E pair \in SessionKeyPairs :
          sk' = [sk EXCEPT !.stage = "set",
                           !.memory = SessionOf(pair[1], pair[2]),
                           !.secure = SecureSessionOf(pair[1], pair[2]),
                           !.cleared = FALSE]
    /\ UNCHANGED <<rk, env, vc, nc, sv, pl, sy>>
    /\ UNCHANGED appVars

\* Lock Vault: clearSessionKeys, of which one deletion may throw.
SkClearSessionKeys ==
    /\ sk.stage # "start"
    /\ \E failAt \in 0..3 :
          sk' = [sk EXCEPT !.stage = "cleared",
                           !.memory = NoSession,
                           !.secure = clearSessionKeys(sk.secure, failAt),
                           !.cleared = TRUE]
    /\ UNCHANGED <<rk, env, vc, nc, sv, pl, sy>>
    /\ UNCHANGED appVars

\* The app is closed and opened again: the module variables are lost.
SkRestart ==
    /\ sk.memory.present
    /\ sk' = [sk EXCEPT !.stage = "restarted", !.memory = NoSession]
    /\ UNCHANGED <<rk, env, vc, nc, sv, pl, sy>>
    /\ UNCHANGED appVars

\* getSessionKeys(): a restore from SecureStore also sets the module variables.
SkGetSessionKeys ==
    /\ sk.stage # "start"
    /\ sk' = [sk EXCEPT !.stage = "got",
                        !.keys = getSessionKeys(sk.memory, sk.secure),
                        !.memory = getSessionKeys(sk.memory, sk.secure)]
    /\ UNCHANGED <<rk, env, vc, nc, sv, pl, sy>>
    /\ UNCHANGED appVars

SkIsSessionActive ==
    /\ sk.stage # "start"
    /\ sk' = [sk EXCEPT !.stage = "asked",
                        !.active = isSessionActive(sk.memory, sk.secure)]
    /\ UNCHANGED <<rk, env, vc, nc, sv, pl, sy>>
    /\ UNCHANGED appVars

SkNext ==
    \/ SkSetSessionKeys
    \/ SkClearSessionKeys
    \/ SkRestart
    \/ SkGetSessionKeys
    \/ SkIsSessionActive

SpecSession == CodecInit /\ [][SkNext]_vars

\* --------------------------------------------------------------- blobs
KeyFields == {"encryptedDEK", "dekIV", "salt"}
VaultFields == {"encryptedVault", "vaultIV"}

\* An object literal whose properties are taken from src: a property that is
\* undefined in src is dropped when the object is written as JSON.
PickFields(src, fields) ==
    [has |-> src.has \cap fields,
     encryptedVault |-> IF "encryptedVault" \in src.has \cap fields
                        THEN src.encryptedVault ELSE NoCipher,
     vaultIV |-> IF "vaultIV" \in src.has \cap fields THEN src.vaultIV ELSE <<>>,
     encryptedDEK |-> IF "encryptedDEK" \in src.has \cap fields
                      THEN src.encryptedDEK ELSE NoCipher,
     dekIV |-> IF "dekIV" \in src.has \cap fields THEN src.dekIV ELSE <<>>,
     salt |-> IF "salt" \in src.has \cap fields THEN src.salt ELSE <<>>,
     version |-> IF "version" \in src.has \cap fields THEN src.version ELSE 0]

\* { encryptedVault, vaultIV }, without the properties of the stored vault.
WithVaultAlone(src, enc) ==
    [NoBlob EXCEPT !.has = VaultFields,
                   !.encryptedVault = enc.encryptedVault, !.vaultIV = enc.iv]

\* { ...src, encryptedVault, vaultIV }
WithVault(src, enc) ==
    [src EXCEPT !.has = src.has \cup VaultFields,
                !.encryptedVault = enc.encryptedVault, !.vaultIV = enc.iv]

\* ------------------------------------------------------------- the backend
\* The arbitration of a push: a marker newer than the stored one is accepted,
\* an equal one is a no-op, an older one is answered with pull_required.
BackendArbitrate(srv, marker) ==
    IF ~srv.hasVault \/ marker > srv.marker THEN "updated"
    ELSE IF marker = srv.marker THEN "up_to_date"
    ELSE "pull_required"

\* The backend's state after POST /vault/sync and its HTTP response.  A
\* pull_required answer carries the stored blob and marker; the backend may
\* send it with status 409.  A request that fails leaves the backend alone.
BackendSync(srv, blob, marker, netOk, conflict409) ==
    LET d == BackendArbitrate(srv, marker)
    IN IF ~netOk
       THEN [server |-> srv,
             response |-> [status |-> 500, action |-> "failed",
                           encrypted_blob |-> NoBlob, marker |-> 0]]
       ELSE [server |-> IF d = "updated"
                        THEN [srv EXCEPT !.hasVault = TRUE, !.blob = blob,
                                         !.marker = marker]
                        ELSE srv,
             response |-> [status |-> IF d = "pull_required" /\ conflict409
                                      THEN 409 ELSE 200,
                           action |-> d,
                           encrypted_blob |-> IF d = "pull_required"
                                              THEN srv.blob ELSE NoBlob,
                           marker |-> IF d = "updated" THEN marker ELSE srv.marker]]

\* GET /vault/pull: the stored blob and marker, or no blob.
BackendPull(srv, netOk) ==
    IF ~netOk THEN [status |-> 500, hasBlob |-> FALSE, encrypted_blob |-> NoBlob,
                    marker |-> 0]
    ELSE [status |-> 200, hasBlob |-> srv.hasVault,
          encrypted_blob |-> IF srv.hasVault THEN srv.blob ELSE NoBlob,
          marker |-> IF srv.hasVault THEN srv.marker ELSE 0]

\* ------------------------------------------------------------------ api.js
\* api.syncVault: what it returns of the response.  Of a 409 it keeps the
\* server's version, of a 200 the new version; it returns no action, no blob
\* and no lastModified.
apiSyncVault(response) ==
    IF response.status = 409
    THEN [threw |-> FALSE, success |-> FALSE, conflict |-> TRUE,
          serverVersion |-> response.marker, newVersion |-> 0,
          action |-> "undefined", hasBlob |-> FALSE, encrypted_blob |-> NoBlob,
          hasLastModified |-> FALSE, lastModified |-> 0]
    ELSE IF response.status # 200
    THEN [threw |-> TRUE, success |-> FALSE, conflict |-> FALSE,
          serverVersion |-> 0, newVersion |-> 0,
          action |-> "undefined", hasBlob |-> FALSE, encrypted_blob |-> NoBlob,
          hasLastModified |-> FALSE, lastModified |-> 0]
    ELSE [threw |-> FALSE, success |-> TRUE, conflict |-> FALSE,
          serverVersion |-> 0, newVersion |-> response.marker,
          action |-> "undefined", hasBlob |-> FALSE, encrypted_blob |-> NoBlob,
          hasLastModified |-> FALSE, lastModified |-> 0]

\* api.pullVault: { encryptedBlob: data.encrypted_blob, version: data.version }.
apiPullVault(response) ==
    IF response.status # 200
    THEN [threw |-> TRUE, hasBlob |-> FALSE, encryptedBlob |-> NoBlob,
          version |-> 0, hasLastModified |-> FALSE, lastModified |-> 0]
    ELSE [threw |-> FALSE, hasBlob |-> response.hasBlob,
          encryptedBlob |-> response.encrypted_blob, version |-> response.marker,
          hasLastModified |-> FALSE, lastModified |-> 0]

\* ------------------------------------------------------------------ useSync
\* What a run of pushToRemote or pullFromRemote leaves behind: the object it
\* returns (success, action), the status, whether the 2 s timer was set, and
\* what was written to storage.
SyncOutcome(success, action, status, timer, adopt, blob, setMarker, marker) ==
    [success |-> success, action |-> action, status |-> status, timer |-> timer,
     adopt |-> adopt, blob |-> blob, setMarker |-> setMarker, marker |-> marker]

SyncError == SyncOutcome(FALSE, "undefined", "error", FALSE, FALSE, NoBlob, FALSE, 0)
SyncIdle == SyncOutcome(TRUE, "undefined", "idle", FALSE, FALSE, NoBlob, FALSE, 0)

SyncSynced(action) ==
    SyncOutcome(TRUE, action, "synced", TRUE, FALSE, NoBlob, FALSE, 0)

\* handleServerData(encryptedBlob, serverTimestamp), and the status its caller
\* sets: setVault, then setVaultLastModified; an undefined value is not
\* stored, and a storage module without setVaultLastModified makes the call
\* throw after setVault.
handleServerData(storage, hasBlob, blob, hasMarker, marker) ==
    IF storage = "timestamp"
    THEN SyncOutcome(TRUE, "pulled", "synced", TRUE, hasBlob, blob, hasMarker, marker)
    ELSE SyncOutcome(FALSE, "undefined", "error", FALSE, hasBlob, blob, FALSE, 0)

\* pushToRemote(encryptedBlob, marker), after api.syncVault returned r.  The
\* version revision looks at r.success only.  The timestamp revision branches
\* on r.action and, when r.action is none of the three, returns r with the
\* status still 'syncing'.
pushToRemote(rev, storage, r) ==
    IF r.threw THEN SyncError
    ELSE IF ~r.success THEN SyncError
    ELSE IF rev = "version" THEN SyncSynced(r.action)
    ELSE IF r.action = "updated"
    THEN IF storage = "timestamp"
         THEN SyncOutcome(TRUE, "updated", "synced", TRUE, FALSE, NoBlob,
                          r.hasLastModified, r.lastModified)
         ELSE SyncError
    ELSE IF r.action = "pull_required"
    THEN handleServerData(storage, r.hasBlob, r.encrypted_blob,
                          r.hasLastModified, r.lastModified)
    ELSE IF r.action = "up_to_date" THEN SyncSynced("up_to_date")
    ELSE SyncOutcome(TRUE, r.action, "syncing", FALSE, FALSE, NoBlob, FALSE, 0)

\* pullFromRemote overwriting also when the server's marker equals the local
\* one.
pullFromRemoteNotOlder(rev, storage, p, localMarker) ==
    IF p.threw THEN SyncError
    ELSE IF rev = "version"
    THEN IF storage # "version" THEN SyncError
         ELSE IF p.version >= localMarker
         THEN SyncOutcome(TRUE, "undefined", "synced", TRUE, p.hasBlob,
                          p.encryptedBlob, TRUE, p.version)
         ELSE SyncIdle
    ELSE IF ~p.hasBlob THEN SyncIdle
    ELSE IF storage # "timestamp" THEN SyncError
    ELSE IF p.hasLastModified /\ p.lastModified >= localMarker
    THEN handleServerData(storage, p.hasBlob, p.encryptedBlob,
                          p.hasLastModified, p.lastModified)
    ELSE SyncIdle

\* pullFromRemote(), after api.pullVault returned p.
pullFromRemote(rev, storage, p, localMarker) ==
    IF p.threw THEN SyncError
    ELSE IF rev = "version"
    THEN IF storage # "version" THEN SyncError
         ELSE IF p.version > localMarker
         THEN SyncOutcome(TRUE, "undefined", "synced", TRUE, p.hasBlob,
                          p.encryptedBlob, TRUE, p.version)
         ELSE SyncIdle
    ELSE IF ~p.hasBlob THEN SyncIdle
    ELSE IF storage # "timestamp" THEN SyncError
    ELSE IF p.hasLastModified /\ p.lastModified > localMarker
    THEN handleServerData(storage, p.hasBlob, p.encryptedBlob,
                          p.hasLastModified, p.lastModified)
    ELSE SyncIdle

\* One value of a request body: the endpoint, the property's name, and the
\* value, which is text, bytes, a ciphertext or a number.
Sent(path, name, kind, chars, cipher, number) ==
    [path |-> path, name |-> name, kind |-> kind, chars |-> chars, cipher |-> cipher,
     number |-> number]

\* The screen handing the master password to api.register and api.login.
AuthBodyMasterPassword(path, f) ==
    {Sent(path, "email", "text", f.email, NoCipher, 0),
     Sent(path, "password", "text", f.masterPassword, NoCipher, 0),
     Sent(path, "device_name", "text", <<77, 111, 98, 105, 108, 101, 32, 65, 112, 112>>,
          NoCipher, 0)}

\* api.register and api.login: { email, password: accountPassword, device_name }.
AuthBody(path, f) ==
    {Sent(path, "email", "text", f.email, NoCipher, 0),
     Sent(path, "password", "text", f.accountPassword, NoCipher, 0),
     Sent(path, "device_name", "text", <<77, 111, 98, 105, 108, 101, 32, 65, 112, 112>>,
          NoCipher, 0)}

\* api.syncVault: { encryptedBlob: JSON.stringify(encryptedBlob), version }.
SyncBody(blob, marker) ==
    {Sent("/vault/sync", n, "cipher", <<>>, blob[n], 0) :
        n \in blob.has \cap {"encryptedVault", "encryptedDEK"}}
    \cup {Sent("/vault/sync", n, "bytes", blob[n], NoCipher, 0) :
             n \in blob.has \cap {"vaultIV", "dekIV", "salt"}}
    \cup {Sent("/vault/sync", "version", "number", <<>>, NoCipher, marker)}

\* A POST /vault/sync: who sent it, the properties of the blob in its body,
\* whether the body has a marker, the backend's answer, and the body.
PushRecord(origin, blob, marker, response) ==
    [sent |-> TRUE, origin |-> origin, has |-> blob.has, hasMarker |-> TRUE,
     answer |-> response.action, body |-> SyncBody(blob, marker)]

\* VaultScreen.loadVault: what setItems receives, and whether decryptVault threw.
loadVault(vd, dek) ==
    IF vd.present /\ "encryptedVault" \in vd.blob.has
    THEN LET d == DecryptedVaults[vd.blob.encryptedVault, vd.blob.vaultIV, dek]
         IN IF ~d.ok THEN [items |-> <<>>, failed |-> TRUE]
            ELSE [items |-> IF d.isArray THEN d.items ELSE <<>>, failed |-> FALSE]
    ELSE [items |-> <<>>, failed |-> FALSE]

\* ---------------------------------------------------- pullFromRemote alone
\* The vault of the device, and what another client of the account may have
\* pushed: a complete blob, or the two fields handleRegister pushes.
PlLocalBlob ==
    [NoBlob EXCEPT !.has = VaultFields \cup KeyFields,
                   !.encryptedVault = encryptVault(<<>>, SvDEK, SvIV(1)).encryptedVault,
                   !.vaultIV = SvIV(1),
                   !.encryptedDEK = encryptDEK(SvDEK, ImportKey(Fill(9, 32)),
                                               SvIV(2)).encryptedDEK,
                   !.dekIV = SvIV(2),
                   !.salt = SaltA]

PlServerBlobs ==
    {[PlLocalBlob EXCEPT
          !.encryptedVault = encryptVault(<<OtherDeviceItem>>, SvDEK,
                                          SvIV(3)).encryptedVault,
          !.vaultIV = SvIV(3)],
     PickFields([PlLocalBlob EXCEPT
                     !.encryptedVault = encryptVault(<<OtherDeviceItem>>, SvDEK,
                                                     SvIV(3)).encryptedVault,
                     !.vaultIV = SvIV(3)], VaultFields)}

PlServers ==
    {[hasAccount |-> TRUE, email |-> <<>>, hasVault |-> FALSE, blob |-> NoBlob,
      marker |-> 0]}
        \cup {[hasAccount |-> TRUE, email |-> <<>>, hasVault |-> TRUE, blob |-> b,
               marker |-> m] : b \in PlServerBlobs, m \in 1..MaxMarker}

\* The Vault screen is mounted on a device that holds a vault.
PlMount ==
    /\ pl.stage = "start"
    /\ \E rev \in {"version", "timestamp"}, storage \in {"version", "timestamp"},
          marker \in 0..MaxMarker, srv \in PlServers :
          pl' = [pl EXCEPT !.stage = "mounted", !.rev = rev, !.storage = storage,
                           !.vaultData = [present |-> TRUE, blob |-> PlLocalBlob],
                           !.vaultVersion = IF marker = 0 THEN NoMarker
                                            ELSE setVaultMarker(marker),
                           !.server = srv]
    /\ UNCHANGED <<rk, env, vc, nc, sk, sv, sy>>
    /\ UNCHANGED appVars

\* useSync's effect: pullFromRemote() and its writes to storage.
PlPullFromRemote(netOk) ==
    LET out == pullFromRemote(pl.rev, pl.storage,
                              apiPullVault(BackendPull(pl.server, netOk)),
                              IF pl.vaultVersion.set THEN pl.vaultVersion.v ELSE 0)
    IN /\ pl.stage = "mounted"
       /\ pl' = [pl EXCEPT !.stage = "pulled", !.netOk = netOk,
                           !.status = out.status,
                           !.vaultDataAfter = IF out.adopt
                                              THEN [present |-> TRUE, blob |-> out.blob]
                                              ELSE pl.vaultData,
                           !.vaultVersionAfter = IF out.setMarker
                                                 THEN setVaultMarker(out.marker)
                                                 ELSE pl.vaultVersion]
       /\ UNCHANGED <<rk, env, vc, nc, sk, sv, sy>>
       /\ UNCHANGED appVars

PlNext == PlMount \/ \E netOk \in BOOLEAN : PlPullFromRemote(netOk)

SpecPull == CodecInit /\ [][PlNext]_vars

\* ------------------------------------------------------------ useSync alone
\* The Vault screen mounts: useState('idle'), then the effect calls
\* pullFromRemote(), which runs up to its await of api.pullVault.
SyMount ==
    /\ sy.stage = "start"
    /\ \E rev \in {"version", "timestamp"}, storage \in {"version", "timestamp"},
          marker \in 0..MaxMarker :
          sy' = [sy EXCEPT !.stage = "mounted", !.rev = rev, !.storage = storage,
                           !.syncStatus = "syncing", !.pull = 1,
                           !.vaultData = [present |-> TRUE, blob |-> PlLocalBlob],
                           !.vaultVersion = IF marker = 0 THEN NoMarker
                                            ELSE setVaultMarker(marker)]
    /\ UNCHANGED <<rk, env, vc, nc, sk, sv, pl>>
    /\ UNCHANGED appVars

\* saveVault or the sync button calls pushToRemote, which runs up to its await
\* of api.syncVault.
SyPushToRemote ==
    /\ sy.stage = "mounted"
    /\ sy.started < MaxCalls
    /\ sy' = [sy EXCEPT !.syncStatus = "syncing", !.push = @ + 1, !.started = @ + 1]
    /\ UNCHANGED <<rk, env, vc, nc, sk, sv, pl>>
    /\ UNCHANGED appVars

\* What the rest of a call does once its request has returned: the status it
\* sets (none when the call returns without a setSyncStatus), the timer it
\* starts and its writes to storage.
SyReturned(out, isPush) ==
    [sy EXCEPT !.syncStatus = IF out.status = "syncing" THEN @ ELSE out.status,
               !.timers = @ + (IF out.timer THEN 1 ELSE 0),
               !.push = @ - (IF isPush THEN 1 ELSE 0),
               !.pull = @ - (IF isPush THEN 0 ELSE 1),
               !.vaultData = IF out.adopt THEN [present |-> TRUE, blob |-> out.blob]
                             ELSE @,
               !.vaultVersion = IF out.setMarker THEN setVaultMarker(out.marker)
                                ELSE @]

\* api.syncVault returns to a pushToRemote in flight.
SyPushReturns(srv, marker, netOk, conflict409) ==
    LET r == apiSyncVault(BackendSync(srv, sy.vaultData.blob, marker, netOk,
                                      conflict409).response)
    IN /\ sy.push > 0
       /\ sy' = SyReturned(pushToRemote(sy.rev, sy.storage, r), TRUE)
       /\ UNCHANGED <<rk, env, vc, nc, sk, sv, pl>>
       /\ UNCHANGED appVars

\* api.pullVault returns to a pullFromRemote in flight.
SyPullReturns(srv, netOk) ==
    LET p == apiPullVault(BackendPull(srv, netOk))
    IN /\ sy.pull > 0
       /\ sy' = SyReturned(pullFromRemote(sy.rev, sy.storage, p,
                                          IF sy.vaultVersion.set
                                          THEN sy.vaultVersion.v ELSE 0), FALSE)
       /\ UNCHANGED <<rk, env, vc, nc, sk, sv, pl>>
       /\ UNCHANGED appVars

\* setTimeout(() => setSyncStatus('idle'), 2000)
SyTimerFires ==
    /\ sy.timers > 0
    /\ sy' = [sy EXCEPT !.syncStatus = "idle", !.timers = @ - 1]
    /\ UNCHANGED <<rk, env, vc, nc, sk, sv, pl>>
    /\ UNCHANGED appVars

SyNext ==
    \/ SyMount
    \/ SyPushToRemote
    \/ \E srv \in PlServers, marker \in 1..MaxMarker, netOk \in BOOLEAN,
          conflict409 \in BOOLEAN : SyPushReturns(srv, marker, netOk, conflict409)
    \/ \E srv \in PlServers, netOk \in BOOLEAN : SyPullReturns(srv, netOk)
    \/ SyTimerFires

SpecSync == CodecInit /\ [][SyNext]_vars

\* ------------------------------------------------------------ variable groups
buildVars == <<storageRev, syncRev>>
accountVars == <<authToken, userEmail, token, email>>
keyVars == <<session, secureSession, keyPair>>
localVars == <<vaultData, vaultVersion, storedSalt>>
screenVars == <<items, syncStatus, timers, mount>>

VaultEffects == {"loadVault", "pull"}

\* --------------------------------------------------------------------- App
\* The app is closed and opened again: the module variables and the state of
\* the components are lost, storage is kept, and App's effect runs
\* restoreSession.  With a saved token, email and session keys the navigator
\* shows the Vault screen, which runs its effects.
restoreSession ==
    LET savedKeys == getSessionKeys(NoSession, secureSession)
        saved == authToken # "" /\ userEmail # <<>>
        unlocked == saved /\ savedKeys.present
    IN /\ token' = IF saved THEN authToken ELSE ""
       /\ email' = IF saved THEN userEmail ELSE <<>>
       /\ keyPair' = IF unlocked THEN savedKeys ELSE NoKeyPair
       /\ session' = savedKeys
       /\ form' = EmptyForm
       /\ unlockForm' = <<>>
       /\ items' = <<>>
       /\ syncStatus' = "idle"
       /\ timers' = 0
       /\ mount' = IF unlocked THEN VaultEffects ELSE {}
       /\ request' = NoRequest
       /\ UNCHANGED <<codecVars, buildVars, authToken, userEmail, secureSession,
                      localVars, recoveryFile, server, enrolled>>

\* ------------------------------------------------------------- LoginScreen
\* The user fills in the email and the master password (and its confirmation).
TypeForm(e, p) ==
    /\ Screen = "Login"
    /\ <<e, p>> # <<form.email, form.masterPassword>>
    /\ form' = [form EXCEPT !.email = e, !.accountPassword = AccountPassword,
                             !.masterPassword = p]
    /\ request' = NoRequest
    /\ UNCHANGED <<codecVars, buildVars, accountVars, keyVars, localVars, screenVars,
                   recoveryFile, server, unlockForm, enrolled>>

\* downloadRecoveryKey with the salt generateSalt() returned; the user saves
\* the shared file.
downloadRecoveryKey(salt) ==
    /\ Screen = "Login"
    /\ form.email # <<>>
    /\ form.masterPassword # <<>>
    /\ recoveryFile' = [present |-> TRUE,
                        token |-> generateRecoveryKey(form.email, form.masterPassword,
                                                      salt)]
    /\ form' = [form EXCEPT !.recoveryKeyDownloaded = TRUE]
    /\ request' = NoRequest
    /\ UNCHANGED <<codecVars, buildVars, accountVars, keyVars, localVars, screenVars,
                   server, unlockForm, enrolled>>

\* handleLogin: the backend knows the account and the account password.
handleLogin ==
    /\ Screen = "Login"
    /\ form.email # <<>>
    /\ form.accountPassword # <<>>
    /\ server.hasAccount
    /\ form.email = server.email
    /\ authToken' = Jwt
    /\ userEmail' = form.email
    /\ token' = Jwt
    /\ email' = form.email
    /\ form' = EmptyForm
    /\ request' = [NoRequest EXCEPT !.body = AuthBody("/auth/login", form)]
    /\ UNCHANGED <<codecVars, buildVars, keyVars, localVars, screenVars, recoveryFile,
                   server, unlockForm, enrolled>>

\* handleRegister, with what the random source returned for the salt, the DEK
\* and the two IVs, the runtime's answer to argon2id, and the network's answer
\* to the push.  The backend creates the account.  A storage module without
\* setVaultVersion makes the handler throw after setVault: nothing is pushed
\* and onLogin is not called.  A failed push throws as well.
handleRegister(salt, dek, dekIV, vaultIV, argon2Throws, netOk) ==
    LET masterKey == deriveKey(form.masterPassword, salt, argon2Throws).key
        wrapped == encryptDEK(dek, masterKey, dekIV)
        enc == EncryptedVaults[<<>>, dek, vaultIV]
        blob == [has |-> VaultFields \cup KeyFields \cup {"version"},
                 encryptedVault |-> enc.encryptedVault, vaultIV |-> enc.iv,
                 encryptedDEK |-> wrapped.encryptedDEK, dekIV |-> wrapped.iv,
                 salt |-> salt, version |-> RegisterVersion]
        encryptedBlob == PickFields(blob, VaultFields)
        account == [server EXCEPT !.hasAccount = TRUE, !.email = form.email]
        sync == BackendSync(account, encryptedBlob, RegisterVersion, netOk, FALSE)
        r == apiSyncVault(sync.response)
        pushed == storageRev = "version"
        loggedIn == pushed /\ ~r.threw
    IN /\ Screen = "Login"
       /\ form.email # <<>>
       /\ form.accountPassword # <<>>
       /\ form.masterPassword # <<>>
       /\ Len(form.masterPassword) >= MinMasterPasswordLength
       /\ form.recoveryKeyDownloaded
       /\ ~server.hasAccount
       /\ ~pushed => netOk
       /\ authToken' = Jwt
       /\ userEmail' = form.email
       /\ storedSalt' = setSalt(salt)
       /\ vaultData' = [present |-> TRUE, blob |-> blob]
       /\ vaultVersion' = IF pushed THEN setVaultMarker(RegisterVersion)
                          ELSE vaultVersion
       /\ server' = IF pushed THEN sync.server ELSE account
       /\ request' = IF pushed
                     THEN [PushRecord("handleRegister", encryptedBlob,
                                      RegisterVersion, sync.response)
                              EXCEPT !.body = @ \cup AuthBody("/auth/register", form)]
                     ELSE [NoRequest EXCEPT !.body = AuthBody("/auth/register", form)]
       /\ token' = IF loggedIn THEN Jwt ELSE token
       /\ email' = IF loggedIn THEN form.email ELSE email
       /\ form' = IF loggedIn THEN EmptyForm ELSE form
       /\ enrolled' = [done |-> TRUE, email |-> form.email,
                       password |-> form.masterPassword, salt |-> salt,
                       argon2Throws |-> argon2Throws, masterKey |-> masterKey,
                       dek |-> dek, encryptedDEK |-> wrapped.encryptedDEK,
                       dekIV |-> wrapped.iv]
       /\ UNCHANGED <<codecVars, buildVars, keyVars, screenVars, recoveryFile,
                      unlockForm>>

\* ------------------------------------------------------------ UnlockScreen
\* What setSessionKeys and onUnlock leave behind, and the effects the Vault
\* screen runs once mounted.
Unlocked(masterKey, dek) ==
    /\ session' = SessionOf(masterKey, dek)
    /\ secureSession' = SecureSessionOf(masterKey, dek)
    /\ keyPair' = [present |-> TRUE, masterKey |-> masterKey, dek |-> dek]
    /\ items' = <<>>
    /\ syncStatus' = "idle"
    /\ timers' = 0
    /\ mount' = VaultEffects
    /\ unlockForm' = <<>>

\* handleUnlock without the test for encryptedDEK, dekIV and salt in the pulled
\* blob: whatever the server holds is stored.
handleUnlockStoresAnyBlob(password, argon2Throws, netOk) ==
    LET local == getSalt.present /\ vaultData.present
        p == apiPullVault(BackendPull(server, netOk))
        pulled == ~p.threw /\ p.hasBlob
        pulledVault == [PickFields(p.encryptedBlob, VaultFields \cup KeyFields)
                            EXCEPT !.has = @ \cup {"version"}, !.version = p.version]
        vd == IF local THEN vaultData.blob ELSE pulledVault
        salt == IF local THEN getSalt.salt ELSE pulledVault.salt
        masterKey == deriveKey(password, salt, argon2Throws).key
        d == decryptDEK(vd.encryptedDEK, vd.dekIV, masterKey)
    IN /\ Screen = "Unlock"
       /\ password # <<>>
       /\ local => netOk
       /\ request' = NoRequest
       /\ IF ~local /\ ~pulled
          THEN /\ unlockForm' = password
               /\ UNCHANGED <<localVars, keyVars, screenVars>>
          ELSE /\ vaultData' = [present |-> TRUE, blob |-> vd]
               /\ storedSalt' = IF local THEN storedSalt ELSE setSalt(salt)
               /\ UNCHANGED vaultVersion
               /\ IF d.ok THEN Unlocked(masterKey, d.key)
                  ELSE /\ unlockForm' = password
                       /\ UNCHANGED <<keyVars, screenVars>>
       /\ UNCHANGED <<codecVars, buildVars, accountVars, form, recoveryFile, server,
                      enrolled>>

\* handleUnlock with the typed master password.  Without a local salt or vault
\* the vault is pulled first; a failed request, no blob or an incomplete blob
\* ends the handler.  The pulled vault and salt are stored before the key is
\* derived.
handleUnlock(password, argon2Throws, netOk) ==
    LET local == getSalt.present /\ vaultData.present
        p == apiPullVault(BackendPull(server, netOk))
        pulled == ~p.threw /\ p.hasBlob /\ KeyFields \subseteq p.encryptedBlob.has
        pulledVault == [PickFields(p.encryptedBlob, VaultFields \cup KeyFields)
                            EXCEPT !.has = @ \cup {"version"}, !.version = p.version]
        vd == IF local THEN vaultData.blob ELSE pulledVault
        salt == IF local THEN getSalt.salt ELSE pulledVault.salt
        masterKey == deriveKey(password, salt, argon2Throws).key
        d == decryptDEK(vd.encryptedDEK, vd.dekIV, masterKey)
    IN /\ Screen = "Unlock"
       /\ password # <<>>
       /\ local => netOk
       /\ request' = NoRequest
       /\ IF ~local /\ ~pulled
          THEN /\ unlockForm' = password
               /\ UNCHANGED <<localVars, keyVars, screenVars>>
          ELSE /\ vaultData' = [present |-> TRUE, blob |-> vd]
               /\ storedSalt' = IF local THEN storedSalt ELSE setSalt(salt)
               /\ UNCHANGED vaultVersion
               /\ IF d.ok THEN Unlocked(masterKey, d.key)
                  ELSE /\ unlockForm' = password
                       /\ UNCHANGED <<keyVars, screenVars>>
       /\ UNCHANGED <<codecVars, buildVars, accountVars, form, recoveryFile, server,
                      enrolled>>

\* handleBiometricUnlock as a biometric unlock would be: a successful prompt
\* releases the keys of the enrolled vault and calls onUnlock.
handleBiometricUnlockReleasesKeys(success) ==
    /\ Screen = "Unlock"
    /\ request' = NoRequest
    /\ IF success /\ enrolled.done
       THEN Unlocked(enrolled.masterKey, enrolled.dek)
       ELSE UNCHANGED <<keyVars, screenVars, unlockForm>>
    /\ UNCHANGED <<codecVars, buildVars, accountVars, localVars, form, recoveryFile,
                   server, enrolled>>

\* handleBiometricUnlock with the result of the system prompt: on success an
\* alert asks for the master password, and nothing else happens.
handleBiometricUnlock(success) ==
    /\ Screen = "Unlock"
    /\ request' = NoRequest
    /\ UNCHANGED <<codecVars, buildVars, accountVars, keyVars, localVars, screenVars,
                   form, recoveryFile, server, unlockForm, enrolled>>

\* What the recovery key field can hold when the button is pressed: the key of
\* the saved file, or a key that was made for another email address ("a@b")
\* with the password and the salt this model registers.
OtherAccountKey == generateRecoveryKey(<<97, 64, 98>>, PasswordA, SaltA)

RecoveryKeyField ==
    (IF recoveryFile.present THEN {recoveryFile.token} ELSE {}) \cup {OtherAccountKey}

\* handleRecoveryKeyUnlock without the comparison of the parsed email with the
\* email of the account.
handleRecoveryKeyUnlockAnyEmail(recoveryKey, argon2Throws) ==
    LET parsed == parseRecoveryKey(recoveryKey)
        masterKey == deriveKey(parsed.password, parsed.salt, argon2Throws).key
        d == decryptDEK(vaultData.blob.encryptedDEK, vaultData.blob.dekIV, masterKey)
    IN /\ Screen = "Unlock"
       /\ recoveryKey # <<>>
       /\ request' = NoRequest
       /\ IF parsed.ok /\ vaultData.present /\ d.ok
          THEN Unlocked(masterKey, d.key)
          ELSE UNCHANGED <<keyVars, screenVars, unlockForm>>
       /\ UNCHANGED <<codecVars, buildVars, accountVars, localVars, form, recoveryFile,
                      server, enrolled>>

\* handleRecoveryKeyUnlock with the recovery key of the field.
handleRecoveryKeyUnlock(recoveryKey, argon2Throws) ==
    LET parsed == parseRecoveryKey(recoveryKey)
        masterKey == deriveKey(parsed.password, parsed.salt, argon2Throws).key
        d == decryptDEK(vaultData.blob.encryptedDEK, vaultData.blob.dekIV, masterKey)
    IN /\ Screen = "Unlock"
       /\ recoveryKey # <<>>
       /\ request' = NoRequest
       /\ IF parsed.ok /\ parsed.email = email /\ vaultData.present /\ d.ok
          THEN Unlocked(masterKey, d.key)
          ELSE UNCHANGED <<keyVars, screenVars, unlockForm>>
       /\ UNCHANGED <<codecVars, buildVars, accountVars, localVars, form, recoveryFile,
                      server, enrolled>>

\* clearAllData without clearSessionKeys: the SecureStore copy of the session
\* keys outlives the logout.
LoggedOutKeepsSecureStore ==
    /\ authToken' = ""
    /\ userEmail' = <<>>
    /\ vaultData' = NoVault
    /\ vaultVersion' = NoMarker
    /\ storedSalt' = NoSalt
    /\ session' = NoSession
    /\ secureSession' = secureSession
    /\ token' = ""
    /\ email' = <<>>
    /\ keyPair' = NoKeyPair
    /\ form' = EmptyForm
    /\ unlockForm' = <<>>
    /\ items' = <<>>
    /\ syncStatus' = "idle"
    /\ timers' = 0
    /\ mount' = {}
    /\ request' = NoRequest

\* App.handleLogout after clearAllData: storage and App state are empty.
LoggedOut ==
    /\ authToken' = ""
    /\ userEmail' = <<>>
    /\ vaultData' = NoVault
    /\ vaultVersion' = NoMarker
    /\ storedSalt' = NoSalt
    /\ session' = NoSession
    /\ secureSession' = NoSecureSession
    /\ token' = ""
    /\ email' = <<>>
    /\ keyPair' = NoKeyPair
    /\ form' = EmptyForm
    /\ unlockForm' = <<>>
    /\ items' = <<>>
    /\ syncStatus' = "idle"
    /\ timers' = 0
    /\ mount' = {}
    /\ request' = NoRequest

\* The Logout button of the Unlock screen: clearAllData, then onLogout.
UnlockScreenLogout ==
    /\ Screen = "Unlock"
    /\ LoggedOut
    /\ UNCHANGED <<codecVars, buildVars, recoveryFile, server, enrolled>>

\* -------------------------------------------------------------- VaultScreen
\* The screen shows a spinner until the first loadVault has finished.
VaultReady == Screen = "Vault" /\ "loadVault" \notin mount

\* useEffect(() => { loadVault(); }, [])
MountLoadVault ==
    LET loaded == loadVault(vaultData, keyPair.dek)
    IN /\ Screen = "Vault"
       /\ "loadVault" \in mount
       /\ items' = loaded.items
       /\ mount' = mount \ {"loadVault"}
       /\ UNCHANGED <<codecVars, buildVars, accountVars, keyVars, localVars, syncStatus,
                      timers, form, recoveryFile, server, request, unlockForm, enrolled>>

\* useSync's effect: pullFromRemote() on mount.  The request may still be in
\* flight when the screen has been left; then only storage is written.
MountPull(netOk) ==
    LET out == pullFromRemote(syncRev, storageRev,
                              apiPullVault(BackendPull(server, netOk)), getVaultMarker)
    IN /\ "pull" \in mount
       /\ timers < MaxTimers
       /\ mount' = mount \ {"pull"}
       /\ vaultData' = IF out.adopt THEN [present |-> TRUE, blob |-> out.blob]
                       ELSE vaultData
       /\ vaultVersion' = IF out.setMarker THEN setVaultMarker(out.marker)
                          ELSE vaultVersion
       /\ IF Screen = "Vault"
          THEN /\ syncStatus' = out.status
               /\ timers' = timers + (IF out.timer THEN 1 ELSE 0)
          ELSE UNCHANGED <<syncStatus, timers>>
       /\ UNCHANGED <<codecVars, buildVars, accountVars, keyVars, storedSalt, items,
                      form, recoveryFile, server, request, unlockForm, enrolled>>

\* setTimeout(() => setSyncStatus('idle'), 2000)
TimerFires ==
    /\ timers > 0
    /\ timers' = timers - 1
    /\ syncStatus' = "idle"
    /\ UNCHANGED <<codecVars, buildVars, accountVars, keyVars, localVars, items, mount,
                   form, recoveryFile, server, request, unlockForm, enrolled>>

\* saveVault(updatedItems) after setItems(updatedItems): encrypt, store, push,
\* reload.  now is new Date(); iv is the random IV of encryptVault.  A storage
\* module without setVaultLastModified makes the handler throw after setVault,
\* and so does a missing stored vault after setVaultLastModified.
saveVault(updatedItems, iv, now, netOk, conflict409) ==
    LET enc == EncryptedVaults[updatedItems, keyPair.dek, iv]
        updatedVault == [present |-> TRUE, blob |-> WithVault(vaultData.blob, enc)]
        encryptedBlob == PickFields(updatedVault.blob, VaultFields \cup KeyFields)
        sync == BackendSync(server, encryptedBlob, now, netOk, conflict409)
        out == pushToRemote(syncRev, storageRev, apiSyncVault(sync.response))
        stored == IF out.adopt THEN [present |-> TRUE, blob |-> out.blob]
                  ELSE updatedVault
        loaded == loadVault(stored, keyPair.dek)
    IN IF storageRev # "timestamp"
          THEN /\ vaultData' = updatedVault
               /\ items' = updatedItems
               /\ request' = NoRequest
               /\ UNCHANGED <<vaultVersion, server, syncStatus, timers>>
          ELSE IF ~vaultData.present
          THEN /\ vaultData' = updatedVault
               /\ vaultVersion' = setVaultMarker(now)
               /\ items' = updatedItems
               /\ request' = NoRequest
               /\ UNCHANGED <<server, syncStatus, timers>>
          ELSE /\ vaultData' = stored
               /\ vaultVersion' = IF out.setMarker THEN setVaultMarker(out.marker)
                                  ELSE setVaultMarker(now)
               /\ server' = sync.server
               /\ request' = PushRecord("saveVault", encryptedBlob, now, sync.response)
               /\ syncStatus' = out.status
               /\ timers' = timers + (IF out.timer THEN 1 ELSE 0)
               /\ items' = IF out.success THEN loaded.items ELSE updatedItems

\* The network's answers are inputs only where the handler gets that far: a
\* handler that throws before the push reads none, and the backend can answer
\* 409 only to a push it arbitrates as pull_required.
PushInputsRead(marker, netOk, conflict409) ==
    /\ (storageRev # "timestamp" \/ ~vaultData.present) => (netOk /\ ~conflict409)
    /\ conflict409 => (netOk /\ BackendArbitrate(server, marker) = "pull_required")

\* handleAddItem: a new item with the required fields filled in.
handleAddItem(item, iv, now, netOk, conflict409) ==
    /\ VaultReady
    /\ timers < MaxTimers
    /\ Len(items) < MaxItems
    /\ \A i \in 1..Len(items) : items[i] # item
    /\ PushInputsRead(now, netOk, conflict409)
    /\ saveVault(Append(items, item), iv, now, netOk, conflict409)
    /\ UNCHANGED <<codecVars, buildVars, accountVars, keyVars, storedSalt, mount, form,
                   recoveryFile, unlockForm, enrolled>>

\* handleDeleteItem, confirmed: the item with that id is filtered out.
handleDeleteItem(i, iv, now, netOk, conflict409) ==
    /\ VaultReady
    /\ timers < MaxTimers
    /\ i \in 1..Len(items)
    /\ PushInputsRead(now, netOk, conflict409)
    /\ saveVault(SelectSeq(items, LAMBDA it : it # items[i]), iv, now, netOk,
                 conflict409)
    /\ UNCHANGED <<codecVars, buildVars, accountVars, keyVars, storedSalt, mount, form,
                   recoveryFile, unlockForm, enrolled>>

\* handleManualSync: the stored vault is pushed with the stored marker.  A
\* storage module without getVaultLastModified makes the handler throw first.
handleManualSync(netOk, conflict409) ==
    LET encryptedBlob == PickFields(vaultData.blob, VaultFields \cup KeyFields)
        lastModified == getVaultMarker
        sync == BackendSync(server, encryptedBlob, lastModified, netOk, conflict409)
        out == pushToRemote(syncRev, storageRev, apiSyncVault(sync.response))
        stored == IF out.adopt THEN [present |-> TRUE, blob |-> out.blob]
                  ELSE vaultData
        loaded == loadVault(stored, keyPair.dek)
    IN /\ VaultReady
       /\ timers < MaxTimers
       /\ PushInputsRead(lastModified, netOk, conflict409)
       /\ IF storageRev # "timestamp" \/ ~vaultData.present
          THEN /\ request' = NoRequest
               /\ UNCHANGED <<vaultData, vaultVersion, server, syncStatus, timers, items>>
          ELSE /\ vaultData' = stored
               /\ vaultVersion' = IF out.setMarker THEN setVaultMarker(out.marker)
                                  ELSE vaultVersion
               /\ server' = sync.server
               /\ request' = PushRecord("handleManualSync", encryptedBlob,
                                        lastModified, sync.response)
               /\ syncStatus' = out.status
               /\ timers' = timers + (IF out.timer THEN 1 ELSE 0)
               /\ items' = IF out.success THEN loaded.items ELSE items
       /\ UNCHANGED <<codecVars, buildVars, accountVars, keyVars, storedSalt, mount,
                      form, recoveryFile, unlockForm, enrolled>>

\* handleLock: clearSessionKeys, then App.handleLock.
handleLock ==
    /\ VaultReady
    /\ session' = NoSession
    /\ secureSession' = NoSecureSession
    /\ keyPair' = NoKeyPair
    /\ items' = <<>>
    /\ syncStatus' = "idle"
    /\ timers' = 0
    /\ mount' = mount \cap {"pull"}
    /\ request' = NoRequest
    /\ UNCHANGED <<codecVars, buildVars, accountVars, localVars, form, recoveryFile,
                   server, unlockForm, enrolled>>

\* handleLogout, confirmed: clearSessionKeys, then App.handleLogout.
handleLogout ==
    /\ VaultReady
    /\ LoggedOut
    /\ UNCHANGED <<codecVars, buildVars, recoveryFile, server, enrolled>>

\* ------------------------------------------------------------ another device
\* A second device that holds the account's DEK pushes a newer vault: the
\* server's blob is complete, so that device could unlock it.
OtherDevicePush(iv, marker) ==
    LET enc == EncryptedVaults[<<OtherDeviceItem>>, enrolled.dek, iv]
        sync == BackendSync(server, WithVault(server.blob, enc), marker, TRUE, FALSE)
    IN /\ server.hasVault
       /\ KeyFields \subseteq server.blob.has
       /\ marker \in (server.marker + 1)..MaxMarker
       /\ server' = sync.server
       /\ UNCHANGED <<codecVars, buildVars, accountVars, keyVars, localVars, screenVars,
                      form, recoveryFile, request, unlockForm, enrolled>>

\* --------------------------------------------------------------- the program
Next ==
    \/ restoreSession
    \/ \E e \in FormEmails, p \in FormPasswords : TypeForm(e, p)
    \/ \E salt \in Salts : downloadRecoveryKey(salt)
    \/ handleLogin
    \/ \E salt \in RegisterSalts, dek \in AppDEKs, ivs \in RegisterIVs,
          argon2Throws \in BOOLEAN, netOk \in BOOLEAN :
          handleRegister(salt, dek, ivs[1], ivs[2], argon2Throws, netOk)
    \/ \E password \in MasterPasswords, argon2Throws \in BOOLEAN, netOk \in BOOLEAN :
          handleUnlock(password, argon2Throws, netOk)
    \/ \E success \in BOOLEAN : handleBiometricUnlock(success)
    \/ \E recoveryKey \in RecoveryKeyField, argon2Throws \in BOOLEAN :
          handleRecoveryKeyUnlock(recoveryKey, argon2Throws)
    \/ UnlockScreenLogout
    \/ MountLoadVault
    \/ \E netOk \in BOOLEAN : MountPull(netOk)
    \/ TimerFires
    \/ \E item \in AppItemPool, iv \in SaveIVs, now \in 1..MaxMarker,
          netOk \in BOOLEAN, conflict409 \in BOOLEAN :
          handleAddItem(item, iv, now, netOk, conflict409)
    \/ \E i \in 1..MaxItems, iv \in SaveIVs, now \in 1..MaxMarker,
          netOk \in BOOLEAN, conflict409 \in BOOLEAN :
          handleDeleteItem(i, iv, now, netOk, conflict409)
    \/ \E netOk \in BOOLEAN, conflict409 \in BOOLEAN :
          handleManualSync(netOk, conflict409)
    \/ handleLock
    \/ handleLogout
    \/ \E iv \in OtherDeviceIVs, marker \in 1..MaxMarker : OtherDevicePush(iv, marker)

Spec == Init /\ [][Next]_vars

\* -------------------------------------------------- properties of the app
NoSessionKeys == ~keyPair.present /\ ~session.present /\ ~secureSession.active

\* C2: a master key derived from another password, or from another salt, than
\* the one the DEK was wrapped under never unwraps it: decryptDEK fails on the
\* DEK a registration wrapped, and a step that leaves session keys behind is
\* neither handleUnlock with a wrong password nor handleRecoveryKeyUnlock with
\* a key that holds another salt.
WrongPasswordRejected ==
    [][/\ (~enrolled.done /\ enrolled'.done) =>
            \A password \in MasterPasswords, salt \in Salts, argon2Throws \in BOOLEAN :
               (password # enrolled'.password \/ salt # enrolled'.salt)
               => ~decryptDEK(enrolled'.encryptedDEK, enrolled'.dekIV,
                              deriveKey(password, salt, argon2Throws).key).ok
       /\ (enrolled.done /\ ~NoSessionKeys') =>
            /\ \A password \in MasterPasswords \ {enrolled.password},
                  argon2Throws \in BOOLEAN, netOk \in BOOLEAN :
                  ~handleUnlock(password, argon2Throws, netOk)
            /\ \A recoveryKey \in RecoveryKeyField, argon2Throws \in BOOLEAN :
                  handleRecoveryKeyUnlock(recoveryKey, argon2Throws)
                  => parseRecoveryKey(recoveryKey).salt = enrolled.salt
    ]_vars

\* A wrong master password was tried on the stored vault and the Unlock
\* screen is still shown, without keys.
WrongPasswordRejectedWitness ==
    /\ enrolled.done
    /\ Screen = "Unlock"
    /\ vaultData.present
    /\ getSalt.present
    /\ unlockForm # <<>>
    /\ unlockForm # enrolled.password
    /\ NoSessionKeys

\* C5: the recovery key the user holds when handleRegister binds a salt to the
\* account parses to the registered email, password and that salt, and the
\* master key derived from it unwraps the DEK the registration stored.
RecoveryKeyUnlocksRegistration ==
    [][(~enrolled.done /\ enrolled'.done) =>
        /\ parseRecoveryKey(recoveryFile.token).ok
        /\ parseRecoveryKey(recoveryFile.token).email = enrolled'.email
        /\ parseRecoveryKey(recoveryFile.token).password = enrolled'.password
        /\ parseRecoveryKey(recoveryFile.token).salt = enrolled'.salt
        /\ decryptDEK(enrolled'.encryptedDEK, enrolled'.dekIV,
                      deriveKey(parseRecoveryKey(recoveryFile.token).password,
                                parseRecoveryKey(recoveryFile.token).salt,
                                enrolled'.argon2Throws).key).ok
    ]_vars

\* C9: a push that the backend answers with pull_required leaves the client
\* with the server's vault blob and with exactly the server's marker.
ConflictAdoption ==
    [][(request'.sent /\ request' # request /\ request'.answer = "pull_required") =>
        /\ vaultData'.present
        /\ PickFields(vaultData'.blob, VaultFields \cup KeyFields)
             = PickFields(server'.blob, VaultFields \cup KeyFields)
        /\ vaultVersion'.set
        /\ vaultVersion'.v = server'.marker
    ]_vars

\* C10: every push carries the encrypted vault and its IV, the encrypted DEK
\* and its IV, the salt, and a marker.
EveryPushComplete ==
    request.sent => (VaultFields \cup KeyFields \subseteq request.has /\ request.hasMarker)

\* C11: the stored version marker never decreases: a value written to the
\* vault_version key is at least the value it replaces (logout removes the key).
MarkerNeverDecreases ==
    [][(vaultVersion.set /\ vaultVersion'.set) => vaultVersion'.v >= vaultVersion.v]_vars

\* What must not leave the device: the master password, the raw master key,
\* the raw DEK, and the records, as the JSON text that is encrypted or field by
\* field.
TransportSecrets ==
    {enrolled.password, ExportKey(enrolled.masterKey), ExportKey(enrolled.dek)}
    \cup {ExportKey(keyPair.masterKey), ExportKey(keyPair.dek)}
    \cup {TextEncode(JSONStringify(items)), JSONStringify(items)}
    \cup {items[i][j].s : i \in 1..Len(items), j \in 1..5}

\* C14: zero-knowledge transport: no value of a request body is the master
\* password, the raw master key, the raw DEK or a plaintext record, and a
\* /vault/sync body holds only the two ciphertexts, the two IVs, the salt and
\* the version marker.
ZeroKnowledgeTransport ==
    \A a \in request.body :
       /\ a.kind \in {"text", "bytes"}
            => (a.chars = <<>> \/ a.chars \notin TransportSecrets)
       /\ a.path = "/vault/sync" =>
            \/ a.name \in {"encryptedVault", "encryptedDEK"}
                  /\ a.kind = "cipher" /\ a.cipher.intact
            \/ a.name \in {"vaultIV", "dekIV"}
                  /\ a.kind = "bytes" /\ Len(a.chars) = IVLength
            \/ a.name = "salt" /\ a.kind = "bytes" /\ Len(a.chars) = SaltLength
            \/ a.name = "version" /\ a.kind = "number"

\* A registration has sent its two requests, and a save has pushed a vault
\* that holds a record.
ZeroKnowledgeTransportWitness ==
    /\ request.sent
    /\ request.origin = "saveVault"
    /\ items # <<>>
    /\ \E a \in request.body : a.name = "encryptedVault" /\ a.cipher.pt # <<91, 93>>

RecoveryKeyAccountCheck ==
    [][\A recoveryKey \in RecoveryKeyField, argon2Throws \in BOOLEAN :
          (/\ handleRecoveryKeyUnlock(recoveryKey, argon2Throws)
           /\ parseRecoveryKey(recoveryKey).email # email)
          => (NoSessionKeys' /\ Screen' = "Unlock")
    ]_vars

\* The Unlock screen after handleRecoveryKeyUnlock has refused a key of
\* another email address (the handler leaves the state as it found it): the
\* key holds the password and the salt that unwrap the stored EncryptedDEK.
RecoveryKeyAccountCheckWitness ==
    /\ Screen = "Unlock"
    /\ NoSessionKeys
    /\ ~request.sent
    /\ vaultData.present
    /\ parseRecoveryKey(OtherAccountKey).ok
    /\ parseRecoveryKey(OtherAccountKey).email # email
    /\ \E argon2Throws \in BOOLEAN :
          decryptDEK(vaultData.blob.encryptedDEK, vaultData.blob.dekIV,
                     deriveKey(parseRecoveryKey(OtherAccountKey).password,
                               parseRecoveryKey(OtherAccountKey).salt,
                               argon2Throws).key).ok

\* C16: handleBiometricUnlock, whatever the prompt answers, sets no session
\* keys and leaves the Unlock screen in place; a step that brings up the Vault
\* screen either restores the session keys SecureStore holds, or leaves a key
\* pair whose master key is derived from a master password (typed, or held by
\* a recovery key) and the salt of the registration, and unwraps the stored
\* EncryptedDEK to the pair's DEK.
BiometricNeverUnlocks ==
    [][/\ \A success \in BOOLEAN :
             handleBiometricUnlock(success)
             => (UNCHANGED keyVars /\ NoSessionKeys' /\ Screen' = "Unlock")
       /\ (Screen # "Vault" /\ Screen' = "Vault")
          => \/ /\ secureSession.active
                /\ keyPair' = getSessionKeys(NoSession, secureSession)
             \/ /\ vaultData'.present
                /\ decryptDEK(vaultData'.blob.encryptedDEK, vaultData'.blob.dekIV,
                              keyPair'.masterKey).ok
                /\ decryptDEK(vaultData'.blob.encryptedDEK, vaultData'.blob.dekIV,
                              keyPair'.masterKey).key = keyPair'.dek
                /\ \E password \in MasterPasswords, argon2Throws \in BOOLEAN :
                      keyPair'.masterKey
                          = deriveKey(password, enrolled'.salt, argon2Throws).key
    ]_vars

\* The Unlock screen of an account with a vault on the device, after a
\* biometric prompt (the handler leaves the state as it found it): the keys
\* the prompt could have released exist, and no session keys are set.
BiometricNeverUnlocksWitness ==
    /\ Screen = "Unlock"
    /\ enrolled.done
    /\ vaultData.present
    /\ ~request.sent
    /\ NoSessionKeys
    /\ decryptDEK(vaultData.blob.encryptedDEK, vaultData.blob.dekIV,
                  enrolled.masterKey).ok

SessionPersistsAcrossRestart ==
    [][(/\ keyPair.present
        /\ request' = NoRequest
        /\ items' = <<>>
        /\ UNCHANGED <<authToken, userEmail, secureSession, localVars, server>>
        /\ restoreSession)
       => /\ getSessionKeys(NoSession, secureSession).present
          /\ ExportKey(getSessionKeys(NoSession, secureSession).masterKey)
                 = ExportKey(keyPair.masterKey)
          /\ ExportKey(getSessionKeys(NoSession, secureSession).dek)
                 = ExportKey(keyPair.dek)
          /\ keyPair' = getSessionKeys(NoSession, secureSession)
          /\ token' = token
          /\ Screen' = "Vault"
    ]_vars

\* The Vault screen as restoreSession leaves it for an account whose keys are
\* in SecureStore: nothing is typed or loaded yet, both effects of the screen
\* are pending, and the key pair is the one decoded from the stored base64
\* strings, with the DEK of the registration.
SessionPersistsAcrossRestartWitness ==
    /\ Screen = "Vault"
    /\ form = EmptyForm /\ unlockForm = <<>> /\ items = <<>>
    /\ mount = VaultEffects
    /\ ~request.sent
    /\ secureSession.active
    /\ keyPair = getSessionKeys(NoSession, secureSession)
    /\ Atob(secureSession.dek.b64).bytes = ExportKey(enrolled.dek)
    /\ Len(ExportKey(keyPair.masterKey)) > 0

\* C19: the step in which handleRegister has registered the account and calls
\* onLogin ends on the Vault screen.
RegistrationShowsVault ==
    [][\A salt \in RegisterSalts, dek \in AppDEKs, ivs \in RegisterIVs,
          argon2Throws \in BOOLEAN, netOk \in BOOLEAN :
          (/\ token = "" /\ token' # ""
           /\ handleRegister(salt, dek, ivs[1], ivs[2], argon2Throws, netOk))
          => Screen' = "Vault"
    ]_vars

\* C20: decryptVault fails on a tag mismatch (another key, a changed
\* ciphertext), and on bytes that decrypt but are not a serialised vault it
\* fails with another error than the one of the tag mismatch.
DecryptVaultErrorsDistinct ==
    /\ vc.stage \in {"wrongKey", "tampered"} => (~vc.out.ok /\ vc.out.error # "")
    /\ (vc.stage = "decrypted" /\ ~IsVaultPlaintext(vc.encryptedVault.pt))
       => /\ ~vc.out.ok
          /\ vc.out.error # ""
          /\ vc.out.error
                # decryptVault([vc.encryptedVault EXCEPT !.intact = FALSE],
                               vc.iv, vc.dek).error

\* C21: when deriveKey has returned a key, on the Argon2id path or on the
\* PBKDF2 path, every byte array it created from the password holds zeros only.
PasswordBuffersZeroized ==
    /\ (env.stage # "start" /\ env.kek.ok)
       => \A i \in 1..Len(env.kek.buffers) :
             \A j \in 1..Len(env.kek.buffers[i]) : env.kek.buffers[i][j] = 0
    /\ (env.stage \in {"rederived", "unwrapped"} /\ env.kek2.ok)
       => \A i \in 1..Len(env.kek2.buffers) :
             \A j \in 1..Len(env.kek2.buffers[i]) : env.kek2.buffers[i][j] = 0

\* C22: two deriveKey calls with the same password and the same salt return
\* keys with equal raw bytes, whether argon2id returned or threw in either.
DeriveKeyIsFunction ==
    (/\ env.stage \in {"rederived", "unwrapped"}
     /\ env.password2 = env.password
     /\ env.salt2 = env.salt)
    => (/\ env.kek.ok /\ env.kek2.ok
        /\ ExportKey(env.kek2.key) = ExportKey(env.kek.key))

SessionStaysCleared ==
    sk.cleared
    => /\ (sk.stage = "got" => ~sk.keys.present)
       /\ (sk.stage = "asked" => ~sk.active)
       /\ ~getSessionKeys(sk.memory, sk.secure).present
       /\ ~isSessionActive(sk.memory, sk.secure)

\* C25: when two saveVault calls have both completed, their pushes accepted
\* and their reloads done, the stored EncryptedVault decrypts to the list of
\* the later mutation, and that list is the one shown.
LaterSaveWins ==
    (/\ Len(sv.calls) = 2
     /\ sv.calls[1].at = "loaded"
     /\ sv.calls[2].at = "loaded")
    => /\ decryptVault(sv.stored.encryptedVault, sv.stored.iv, SvDEK).items
             = sv.calls[2].updatedItems
       /\ sv.items = sv.calls[2].updatedItems

\* C26: a pullFromRemote changes the stored vault blob or the stored marker
\* only when the server holds a vault whose marker is strictly newer than the
\* local one, and then it stores the server's blob and marker; with an equal
\* or older marker, or no vault on the server, both stay as they were.
PullOverwritesOnlyWhenNewer ==
    pl.stage = "pulled"
    => LET local == IF pl.vaultVersion.set THEN pl.vaultVersion.v ELSE 0
           newer == pl.server.hasVault /\ pl.server.marker > local
           changed == \/ pl.vaultDataAfter # pl.vaultData
                      \/ pl.vaultVersionAfter # pl.vaultVersion
       IN /\ changed => /\ newer
                        /\ pl.netOk
                        /\ pl.vaultDataAfter.blob = pl.server.blob
                        /\ pl.vaultVersionAfter = setVaultMarker(pl.server.marker)
          /\ ~newer => ~changed

\* A pull that found a newer vault on the server and stored it with its
\* marker, on a device that held an older one.
PullOverwritesOnlyWhenNewerWitness ==
    /\ pl.stage = "pulled"
    /\ pl.vaultVersion.set
    /\ pl.server.marker > pl.vaultVersion.v
    /\ pl.vaultDataAfter.blob = pl.server.blob
    /\ pl.vaultDataAfter # pl.vaultData
    /\ pl.vaultVersionAfter.v = pl.server.marker

\* C27: every pushToRemote and pullFromRemote call leaves syncStatus at a
\* value other than 'syncing': once the Vault screen has mounted and no call
\* is in flight, the status is synced, idle or error.
CompletedCallsLeaveSyncing ==
    (sy.stage = "mounted" /\ sy.push = 0 /\ sy.pull = 0) => sy.syncStatus # "syncing"

\* C28: while a pushToRemote or pullFromRemote call is in flight, syncStatus
\* is 'syncing'; neither a timer of an earlier call nor the completion of an
\* overlapping call changes it.
InFlightShowsSyncing ==
    (sy.push + sy.pull > 0) => sy.syncStatus = "syncing"

====
